---------------------------- MODULE Spec2Model ----------------------------
(***************************************************************************)
(* A model of the Miro widgets frontend: the per-display UI state store    *)
(* (widgetstatestore.py) and the custom cell renderers (style.py).         *)
(*                                                                         *)
(* Python values are encoded as follows.                                   *)
(*   None / a value v          <<>> / <<v>>                                *)
(*   unicode(display_id)       ids are records [t, v]; unicode() sets t    *)
(*   a list object             a reference: either one of the class-level  *)
(*                             DEFAULT_COLUMNS lists (shared, held in the  *)
(*                             variable lists) or a list handed in by a    *)
(*                             caller (held by value, never shared)        *)
(*   a sort key '-name'        the token sequence <<"-", "name">>          *)
(***************************************************************************)
EXTENDS Integers, Sequences, FiniteSets, TLC

VARIABLES
    displays,   \* WidgetStateStore.displays: key -> DisplayInfo
    views,      \* WidgetStateStore.views: key -> ViewInfo
    lists,      \* contents of the class-level DEFAULT_COLUMNS list objects
    sent,       \* the Save*State messages sent by the last store call, in order
    backend,    \* per key, the entity carried by the latest Save*State message
    ret,        \* the last call: operation, arguments, error, returned value
    calls,      \* number of calls the run may still make
    layout,     \* a cellpack.Layout under construction: its elements, in order
    info,       \* the item of the row the host has set on the renderer
    env,        \* what a renderer reads from the host: attrs, playback, prefs
    ir,         \* the attributes an ItemRenderer object keeps between calls
    tested,     \* the last ItemRenderer.hotspot_test: arguments and outcome
    rendered,   \* the last ItemRenderer.render: arguments and outcome
    status      \* the last StatusRenderer.render: arguments and outcome

storeVars == <<displays, views, lists, sent, backend>>
layoutVars == <<layout>>
itemVars == <<info, env, ir, tested, rendered, status>>
vars == <<displays, views, lists, sent, backend, ret, calls, layout, info,
          env, ir, tested, rendered, status>>

None == <<>>
Some(v) == <<v>>

---------------------------------------------------------------------------
(* WidgetStateStore: class-level tables *)

LIST_VIEW == 1
STANDARD_VIEW == 0

DisplayTypes ==
    {"videos", "music", "others", "downloading", "all-feeds", "feed",
     "search", "sharing", "device-video", "device-audio", "playlist"}

DEFAULT_VIEW_TYPE ==
    [dt \in DisplayTypes |->
        IF dt \in {"videos", "downloading", "all-feeds", "feed", "device-video"}
        THEN STANDARD_VIEW ELSE LIST_VIEW]

FILTER_VIEW_ALL == 0
FILTER_UNWATCHED == 1
FILTER_NONFEED == 2
FILTER_DOWNLOADED == 4
DEFAULT_DISPLAY_FILTERS == FILTER_VIEW_ALL

DEFAULT_COLUMN_WIDTHS ==
    [state |-> 20, name |-> 130, artist |-> 110, album |-> 100, track |-> 30,
     length |-> 60, genre |-> 65, year |-> 40, rating |-> 75, size |-> 65,
     status |-> 70, date |-> 70, eta |-> 60, rate |-> 60, description |-> 160]
    @@ ("feed-name" :> 70) @@ ("torrent-details" :> 160)

DEFAULT_SORT_COLUMN ==
    [dt \in DisplayTypes |->
        CASE dt \in {"videos", "others", "search", "sharing", "device-video"} -> "name"
          [] dt \in {"music", "device-audio"} -> "artist"
          [] dt = "downloading" -> "eta"
          [] dt = "all-feeds" -> "feed-name"
          [] dt = "feed" -> "date"
          [] dt = "playlist" -> "playlist"]

\* DEFAULT_COLUMNS[display_type] is a list OBJECT; lines 108-111 bind four
\* display types to the list object of another type.
DEFAULT_COLUMNS ==
    [dt \in DisplayTypes |->
        CASE dt \in {"sharing", "device-video"} -> "videos"
          [] dt \in {"device-audio", "playlist"} -> "music"
          [] OTHER -> dt]

\* the contents of the DEFAULT_COLUMNS list objects when the class is created
InitialLists ==
    [videos |-> <<"state", "name", "length", "feed-name", "size">>,
     music |-> <<"state", "name", "artist", "album", "track", "feed-name",
                 "length", "genre", "year", "rating">>,
     others |-> <<"name", "feed-name", "size">>,
     downloading |-> <<"name", "feed-name", "status", "eta", "rate",
                       "torrent-details", "size">>,
     feed |-> <<"state", "name", "length", "status", "size", "date">>,
     search |-> <<"state", "name", "description">>]
    @@ ("all-feeds" :> <<"state", "name", "feed-name", "length", "status",
                         "size", "date">>)

\* AVAILABLE_COLUMNS: copies ([:]) of the default lists, four of them extended
AVAILABLE_COLUMNS ==
    [dt \in DisplayTypes |->
        InitialLists[DEFAULT_COLUMNS[dt]] \o
        (CASE dt \in {"videos", "others", "search"} -> <<"rating">>
           [] dt = "music" -> <<"size">>
           [] OTHER -> <<>>)]

Elems(seq) == {seq[i] : i \in 1..Len(seq)}

\* a list object: shared (a DEFAULT_COLUMNS list) or a caller's own list
SharedList(obj) == [kind |-> "shared", obj |-> obj, val |-> <<>>]
OwnList(seq) == [kind |-> "own", obj |-> "", val |-> seq]
Deref(ls, ref) == IF ref.kind = "shared" THEN ls[ref.obj] ELSE ref.val

\* unicode(display_id)
unicode(display_id) == [t |-> "unicode", v |-> display_id.v]

\* miro.messages.DisplayInfo(key) and ViewInfo(key): every field unset
DisplayInfo ==
    [selected_view |-> None, active_filters |-> None,
     list_view_columns |-> None, list_view_widths |-> None]
ViewInfo == [sort_state |-> None, scroll_position |-> None]

\* what a SaveDisplayState message carries: the DisplayInfo as it is when sent
DisplayValue(ls, display) ==
    [display EXCEPT !.list_view_columns =
        IF @ = None THEN None ELSE Some(Deref(ls, @[1]))]


\* what a SaveViewState message carries
ViewValue(view) == view

SaveDisplayState(key, s) ==
    [kind |-> "display", key |-> key, info |-> DisplayValue(s.lists, s.displays[key])]
SaveViewState(key, s) ==
    [kind |-> "view", key |-> key, info |-> ViewValue(s.views[key])]

---------------------------------------------------------------------------
(* WidgetStateStore: methods.  A method takes the store s = [displays,     *)
(* views, lists, sent] and returns it as the method leaves it; a method    *)
(* with a result returns [s, err, val], err naming the exception raised    *)
(* ("" when the method returns normally).                                  *)

Ok(s, val) == [s |-> s, err |-> "", val |-> val]
Raise(s, err) == [s |-> s, err |-> err, val |-> None]

\* is_standard_view answering yes for every view type
is_standard_view_always(view_type) == TRUE

is_list_view(view_type) == view_type = LIST_VIEW
is_standard_view(view_type) == view_type = STANDARD_VIEW

RECURSIVE _get_display(_, _, _), _save_display_state(_, _, _)
RECURSIVE _get_view(_, _, _, _), _save_view_state(_, _, _, _)

\* _get_display without its _save_display_state call: the new DisplayInfo
\* is kept in memory only
_get_display_unsaved(s, display_type, display_id) ==
    LET key == <<display_type, unicode(display_id)>>
    IN  IF key \notin DOMAIN s.displays
        THEN [s EXCEPT !.displays = (key :> DisplayInfo) @@ @]
        ELSE s

\* _get_display that sends a SaveDisplayState on every lookup
_get_display_resaved(s, display_type, display_id) ==
    LET key == <<display_type, unicode(display_id)>>
        s1 == IF key \notin DOMAIN s.displays
              THEN [s EXCEPT !.displays = (key :> DisplayInfo) @@ @]
              ELSE s
    IN  [s1 EXCEPT !.sent = Append(@, SaveDisplayState(key, s1))]

_save_display_state(s, display_type, display_id) ==
    LET s1 == _get_display(s, display_type, display_id)
        key == <<display_type, unicode(display_id)>>
    IN  [s1 EXCEPT !.sent = Append(@, SaveDisplayState(key, s1))]

_save_view_state(s, display_type, display_id, view_type) ==
    LET s1 == _get_view(s, display_type, display_id, view_type)
        key == <<display_type, unicode(display_id), view_type>>
    IN  [s1 EXCEPT !.sent = Append(@, SaveViewState(key, s1))]

_get_display(s, display_type, display_id) ==
    LET key == <<display_type, unicode(display_id)>>
    IN  IF key \notin DOMAIN s.displays
        THEN _save_display_state(
                 [s EXCEPT !.displays = (key :> DisplayInfo) @@ @],
                 display_type, unicode(display_id))
        ELSE s

_get_view(s, display_type, display_id, view_type) ==
    LET key == <<display_type, unicode(display_id), view_type>>
    IN  IF key \notin DOMAIN s.views
        THEN _save_view_state(
                 [s EXCEPT !.views = (key :> ViewInfo) @@ @],
                 display_type, unicode(display_id), view_type)
        ELSE s

get_selected_view(s, display_type, display_id) ==
    LET s1 == _get_display(s, display_type, display_id)
        display == s1.displays[<<display_type, unicode(display_id)>>]
    IN  IF display.selected_view # None
        THEN Ok(s1, display.selected_view[1])
        ELSE IF display_type \in DOMAIN DEFAULT_VIEW_TYPE
             THEN Ok(s1, DEFAULT_VIEW_TYPE[display_type])
             ELSE Raise(s1, "KeyError")

set_selected_view(s, display_type, display_id, selected_view) ==
    LET key == <<display_type, unicode(display_id)>>
        s1 == _get_display(s, display_type, display_id)
        s2 == [s1 EXCEPT !.displays[key].selected_view = Some(selected_view)]
    IN  Ok(_save_display_state(s2, display_type, display_id), None)

get_filters(s, display_type, display_id) ==
    LET s1 == _get_display(s, display_type, display_id)
        display == s1.displays[<<display_type, unicode(display_id)>>]
    IN  IF display.active_filters = None
        THEN Ok(s1, DEFAULT_DISPLAY_FILTERS)
        ELSE Ok(s1, display.active_filters[1])

\* a ^ b on non-negative integers
RECURSIVE BitXor(_, _)
BitXor(a, b) ==
    IF a = 0 /\ b = 0 THEN 0
    ELSE (((a % 2) + (b % 2)) % 2) + (2 * BitXor(a \div 2, b \div 2))

\* toggle_filter adding the filter's value instead of flipping its bits
toggle_filter_add(filters, filter_) ==
    IF filter_ = FILTER_VIEW_ALL THEN filter_ ELSE filters + filter_

toggle_filter(filters, filter_) ==
    IF filter_ = FILTER_VIEW_ALL THEN filter_ ELSE BitXor(filters, filter_)

toggle_filters(s, display_type, display_id, filter_) ==
    LET key == <<display_type, unicode(display_id)>>
        r == get_filters(s, display_type, display_id)
        filters == toggle_filter(r.val, filter_)
        s1 == _get_display(r.s, display_type, display_id)
        s2 == [s1 EXCEPT !.displays[key].active_filters = Some(filters)]
    IN  Ok(_save_display_state(s2, display_type, display_id), None)

\* returns the list OBJECT: the display's own, or the class-level default
get_columns_enabled(s, display_type, display_id, view_type) ==
    IF is_list_view(view_type)
    THEN LET s1 == _get_display(s, display_type, display_id)
             columns_enabled ==
                 s1.displays[<<display_type, unicode(display_id)>>].list_view_columns
         IN  IF columns_enabled # None
             THEN Ok(s1, columns_enabled[1])
             ELSE IF display_type \in DOMAIN DEFAULT_COLUMNS
                  THEN Ok(s1, SharedList(DEFAULT_COLUMNS[display_type]))
                  ELSE Raise(s1, "KeyError")
    ELSE Raise(s, "ValueError")

set_columns_enabled(s, display_type, display_id, view_type, enabled) ==
    IF is_list_view(view_type)
    THEN LET key == <<display_type, unicode(display_id)>>
             s1 == _get_display(s, display_type, display_id)
             s2 == [s1 EXCEPT !.displays[key].list_view_columns = Some(enabled)]
         IN  Ok(_save_display_state(s2, display_type, display_id), None)
    ELSE Raise(s, "ValueError")

\* list.remove(x): drops the first occurrence
RECURSIVE ListRemove(_, _)
ListRemove(seq, x) ==
    IF seq = <<>> THEN <<>>
    ELSE IF Head(seq) = x THEN Tail(seq)
    ELSE <<Head(seq)>> \o ListRemove(Tail(seq), x)

\* columns_enabled.remove(column) / .append(column): the list object is
\* changed in place, so every holder of the object sees the change
MutateList(s, key, ref, seq) ==
    IF ref.kind = "shared"
    THEN [s EXCEPT !.lists[ref.obj] = seq]
    ELSE [s EXCEPT !.displays[key].list_view_columns = Some(OwnList(seq))]

\* toggle_column that appends the column whether or not it is present
toggle_column_append(s, display_type, display_id, view_type, column) ==
    IF is_list_view(view_type)
    THEN LET key == <<display_type, unicode(display_id)>>
             r == get_columns_enabled(_get_display(s, display_type, display_id),
                                      display_type, display_id, view_type)
         IN  IF r.err # "" THEN r
             ELSE set_columns_enabled(
                      MutateList(r.s, key, r.val,
                                 Append(Deref(r.s.lists, r.val), column)),
                      display_type, display_id, view_type,
                      IF r.val.kind = "shared" THEN r.val
                      ELSE OwnList(Append(Deref(r.s.lists, r.val), column)))
    ELSE Raise(s, "ValueError")

toggle_column(s, display_type, display_id, view_type, column) ==
    IF is_list_view(view_type)
    THEN LET key == <<display_type, unicode(display_id)>>
             s1 == _get_display(s, display_type, display_id)
             r == get_columns_enabled(s1, display_type, display_id, view_type)
         IN  IF r.err # "" THEN r
             ELSE LET old == Deref(r.s.lists, r.val)
                      new == IF column \in Elems(old)
                             THEN ListRemove(old, column)
                             ELSE Append(old, column)
                      s2 == MutateList(r.s, key, r.val, new)
                      columns_enabled ==
                          IF r.val.kind = "shared" THEN r.val ELSE OwnList(new)
                  IN  set_columns_enabled(s2, display_type, display_id,
                                          view_type, columns_enabled)
    ELSE Raise(s, "ValueError")

\* returns the widths dict: the display's own, or one built from the defaults
get_column_widths(s, display_type, display_id, view_type) ==
    IF is_list_view(view_type)
    THEN LET s1 == _get_display(s, display_type, display_id)
             column_widths ==
                 s1.displays[<<display_type, unicode(display_id)>>].list_view_widths
         IN  IF column_widths # None
             THEN Ok(s1, column_widths[1])
             ELSE LET r == get_columns_enabled(s1, display_type, display_id,
                                               view_type)
                  IN  IF r.err # "" THEN r
                      ELSE LET names == Elems(Deref(r.s.lists, r.val))
                           IN  IF names \subseteq DOMAIN DEFAULT_COLUMN_WIDTHS
                               THEN Ok(r.s, [name \in names |->
                                                DEFAULT_COLUMN_WIDTHS[name]])
                               ELSE Raise(r.s, "KeyError")
    ELSE Raise(s, "ValueError")

update_column_widths(s, display_type, display_id, view_type, widths) ==
    IF is_list_view(view_type)
    THEN LET key == <<display_type, unicode(display_id)>>
             s1 == _get_display(s, display_type, display_id)
             r == IF s1.displays[key].list_view_widths = None
                  THEN get_column_widths(s1, display_type, display_id, view_type)
                  ELSE Ok(s1, s1.displays[key].list_view_widths[1])
         IN  IF r.err # "" THEN r
             ELSE LET s2 == [r.s EXCEPT !.displays[key].list_view_widths =
                                            Some(widths @@ r.val)]
                  IN  Ok(_save_display_state(s2, display_type, display_id), None)
    ELSE Raise(s, "ValueError")

\* lstrip('-') that strips nothing
lstrip_nothing(sort_state) == sort_state

\* sort_state.lstrip('-') on a token sequence
RECURSIVE lstrip(_)
lstrip(sort_state) ==
    IF sort_state # <<>> /\ Head(sort_state) = "-"
    THEN lstrip(Tail(sort_state))
    ELSE sort_state

\* column in enabled, for the column that a stripped sort key spells
ColumnIn(column, enabled) == Len(column) = 1 /\ column[1] \in Elems(enabled)

get_sort_state(s, display_type, display_id, view_type) ==
    LET s1 == _get_view(s, display_type, display_id, view_type)
        view == s1.views[<<display_type, unicode(display_id), view_type>>]
    IN  IF view.sort_state = None /\ display_type \notin DOMAIN DEFAULT_SORT_COLUMN
        THEN Raise(s1, "KeyError")
        ELSE LET sort_state == IF view.sort_state = None
                               THEN <<DEFAULT_SORT_COLUMN[display_type]>>
                               ELSE view.sort_state[1]
             IN  IF is_standard_view(view_type)
                 THEN Ok(s1, sort_state)
                 ELSE LET r == get_columns_enabled(s1, display_type, display_id,
                                                   view_type)
                      IN  IF r.err # "" THEN r
                          ELSE IF ColumnIn(lstrip(sort_state),
                                           Deref(r.s.lists, r.val))
                          THEN Ok(r.s, sort_state)
                          ELSE IF display_type \in DOMAIN DEFAULT_SORT_COLUMN
                          THEN Ok(r.s, <<DEFAULT_SORT_COLUMN[display_type]>>)
                          ELSE Raise(r.s, "KeyError")

set_sort_state(s, display_type, display_id, view_type, sort_key) ==
    LET key == <<display_type, unicode(display_id), view_type>>
        s1 == _get_view(s, display_type, display_id, view_type)
        s2 == [s1 EXCEPT !.views[key].sort_state = Some(sort_key)]
    IN  Ok(_save_view_state(s2, display_type, display_id, view_type), None)

get_scroll_position(s, display_type, display_id, view_type) ==
    LET s1 == _get_view(s, display_type, display_id, view_type)
        view == s1.views[<<display_type, unicode(display_id), view_type>>]
    IN  IF view.scroll_position # None
        THEN Ok(s1, view.scroll_position[1])
        ELSE Ok(s1, <<0, 0>>)

set_scroll_position(s, display_type, display_id, view_type, scroll_position) ==
    LET key == <<display_type, unicode(display_id), view_type>>
        s1 == _get_view(s, display_type, display_id, view_type)
        s2 == [s1 EXCEPT !.views[key].scroll_position = Some(scroll_position)]
    IN  Ok(_save_view_state(s2, display_type, display_id, view_type), None)

---------------------------------------------------------------------------
(* The store as a state machine: one action per public method *)

NoCall == [op |-> "", dt |-> "", id |-> None, vt |-> None, arg |-> None,
           err |-> "", val |-> None]

Empty == [k \in {} |-> None]

\* the backend's copy after the messages of one call arrive, in order
RECURSIVE Deliver(_, _)
Deliver(bk, msgs) ==
    IF msgs = <<>> THEN bk
    ELSE LET m == Head(msgs)
         IN  Deliver([bk EXCEPT ![m.kind] = (m.key :> m.info) @@ @], Tail(msgs))

Store == [displays |-> displays, views |-> views, lists |-> lists, sent |-> <<>>]

\* the call that made r becomes the last call; val is what the caller sees
Call(r, op, dt, id, vt, arg, val) ==
    /\ displays' = r.s.displays
    /\ views' = r.s.views
    /\ lists' = r.s.lists
    /\ sent' = r.s.sent
    /\ backend' = Deliver(backend, r.s.sent)
    /\ ret' = [op |-> op, dt |-> dt, id |-> Some(id), vt |-> vt, arg |-> arg,
               err |-> r.err, val |-> val]
    /\ calls > 0
    /\ calls' = calls - 1
    /\ UNCHANGED <<layoutVars, itemVars>>

\* what the caller of a getter sees of a returned list object: its contents
Seen(r) == IF r.err = "" THEN Deref(r.s.lists, r.val) ELSE None

GetSelectedView(DT, ID) ==
    \E dt \in DT, id \in ID :
        LET r == get_selected_view(Store, dt, id)
        IN  Call(r, "get_selected_view", dt, id, None, None, r.val)

SetSelectedView(DT, ID, VALUES) ==
    \E dt \in DT, id \in ID, v \in VALUES :
        LET r == set_selected_view(Store, dt, id, v)
        IN  Call(r, "set_selected_view", dt, id, None, Some(v), r.val)

GetFilters(DT, ID) ==
    \E dt \in DT, id \in ID :
        LET r == get_filters(Store, dt, id)
        IN  Call(r, "get_filters", dt, id, None, None, r.val)

ToggleFilters(DT, ID, FILTERS) ==
    \E dt \in DT, id \in ID, f \in FILTERS :
        LET r == toggle_filters(Store, dt, id, f)
        IN  Call(r, "toggle_filters", dt, id, None, Some(f), r.val)

GetColumnsEnabled(DT, ID, VT) ==
    \E dt \in DT, id \in ID, vt \in VT :
        LET r == get_columns_enabled(Store, dt, id, vt)
        IN  Call(r, "get_columns_enabled", dt, id, Some(vt), None, Seen(r))

\* the caller hands in a list of its own
SetColumnsEnabled(DT, ID, VT, LISTS) ==
    \E dt \in DT, id \in ID, vt \in VT, enabled \in LISTS :
        LET r == set_columns_enabled(Store, dt, id, vt, OwnList(enabled))
        IN  Call(r, "set_columns_enabled", dt, id, Some(vt), Some(enabled), r.val)

ToggleColumn(DT, ID, VT, COLUMNS) ==
    \E dt \in DT, id \in ID, vt \in VT, column \in COLUMNS :
        LET r == toggle_column(Store, dt, id, vt, column)
        IN  Call(r, "toggle_column", dt, id, Some(vt), Some(column), r.val)

GetColumnWidths(DT, ID, VT) ==
    \E dt \in DT, id \in ID, vt \in VT :
        LET r == get_column_widths(Store, dt, id, vt)
        IN  Call(r, "get_column_widths", dt, id, Some(vt), None, r.val)

UpdateColumnWidths(DT, ID, VT, WIDTHS) ==
    \E dt \in DT, id \in ID, vt \in VT, widths \in WIDTHS :
        LET r == update_column_widths(Store, dt, id, vt, widths)
        IN  Call(r, "update_column_widths", dt, id, Some(vt), Some(widths), r.val)

GetSortState(DT, ID, VT) ==
    \E dt \in DT, id \in ID, vt \in VT :
        LET r == get_sort_state(Store, dt, id, vt)
        IN  Call(r, "get_sort_state", dt, id, Some(vt), None, r.val)

SetSortState(DT, ID, VT, KEYS) ==
    \E dt \in DT, id \in ID, vt \in VT, sort_key \in KEYS :
        LET r == set_sort_state(Store, dt, id, vt, sort_key)
        IN  Call(r, "set_sort_state", dt, id, Some(vt), Some(sort_key), r.val)

GetScrollPosition(DT, ID, VT) ==
    \E dt \in DT, id \in ID, vt \in VT :
        LET r == get_scroll_position(Store, dt, id, vt)
        IN  Call(r, "get_scroll_position", dt, id, Some(vt), None, r.val)

SetScrollPosition(DT, ID, VT, POSITIONS) ==
    \E dt \in DT, id \in ID, vt \in VT, pos \in POSITIONS :
        LET r == set_scroll_position(Store, dt, id, vt, pos)
        IN  Call(r, "set_scroll_position", dt, id, Some(vt), Some(pos), r.val)

---------------------------------------------------------------------------
(* Specifications of the store *)

IntId(n) == [t |-> "int", v |-> n]
UnicodeId(n) == [t |-> "unicode", v |-> n]

\* a display type and a view type the tables do not know
UnknownDisplayType == "bogus"
UnknownViewType == LIST_VIEW + 1

InitStoreVars ==
    /\ displays = Empty
    /\ views = Empty
    /\ lists = InitialLists
    /\ sent = <<>>
    /\ backend = [display |-> Empty, view |-> Empty]
    /\ ret = NoCall

RenderersIdle ==
    /\ layout = <<>>
    /\ info = None
    /\ env = None
    /\ ir = None
    /\ tested = None
    /\ rendered = None
    /\ status = None

\* SpecStore: every method, on known and unknown display and view types
MaxStoreCalls == 2
StoreTypes == {"videos", UnknownDisplayType}
StoreIds == {IntId(1)}
StoreViewTypes == {STANDARD_VIEW, LIST_VIEW, UnknownViewType}

InitStore == InitStoreVars /\ RenderersIdle /\ calls = MaxStoreCalls

NextStore ==
    \/ GetSelectedView(StoreTypes, StoreIds)
    \/ SetSelectedView(StoreTypes, StoreIds, {STANDARD_VIEW, LIST_VIEW})
    \/ GetFilters(StoreTypes, StoreIds)
    \/ ToggleFilters(StoreTypes, StoreIds, {FILTER_VIEW_ALL, FILTER_UNWATCHED})
    \/ GetColumnsEnabled(StoreTypes, StoreIds, StoreViewTypes)
    \/ SetColumnsEnabled(StoreTypes, StoreIds, StoreViewTypes, {<<"name">>})
    \/ ToggleColumn(StoreTypes, StoreIds, StoreViewTypes, {"name", "artist"})
    \/ GetColumnWidths(StoreTypes, StoreIds, StoreViewTypes)
    \/ UpdateColumnWidths(StoreTypes, StoreIds, StoreViewTypes, {[name |-> 50]})
    \/ GetSortState(StoreTypes, StoreIds, StoreViewTypes)
    \/ SetSortState(StoreTypes, StoreIds, StoreViewTypes, {<<"-", "name">>})
    \/ GetScrollPosition(StoreTypes, StoreIds, StoreViewTypes)
    \/ SetScrollPosition(StoreTypes, StoreIds, StoreViewTypes, {<<0, 7>>})

SpecStore == InitStore /\ [][NextStore]_vars

\* SpecSort: the sort state of list and standard views while columns are
\* toggled; 'playlist' has a default sort column that is no default column
MaxSortCalls == 3
SortTypes == {"videos", "playlist"}
SortKeys == {<<"artist">>, <<"-", "name">>, <<"-", "-", "name">>}

InitSort == InitStoreVars /\ RenderersIdle /\ calls = MaxSortCalls

NextSort ==
    \/ GetSortState(SortTypes, StoreIds, {STANDARD_VIEW, LIST_VIEW})
    \/ SetSortState(SortTypes, StoreIds, {STANDARD_VIEW, LIST_VIEW}, SortKeys)
    \/ ToggleColumn(SortTypes, StoreIds, {LIST_VIEW}, {"name", "artist"})

SpecSort == InitSort /\ [][NextSort]_vars

\* SpecFilters: the filter mask of two displays under every filter
MaxFilterCalls == 3
Filters == {FILTER_VIEW_ALL, FILTER_UNWATCHED, FILTER_NONFEED, FILTER_DOWNLOADED}

InitFilters == InitStoreVars /\ RenderersIdle /\ calls = MaxFilterCalls

NextFilters ==
    \/ GetFilters({"videos", "music"}, {IntId(1), UnicodeId(1)})
    \/ ToggleFilters({"videos", "music"}, {IntId(1), UnicodeId(1)}, Filters)

SpecFilters == InitFilters /\ [][NextFilters]_vars

\* SpecGetters: two displays whose types share one default column list, long
\* enough for a value to be stored, disturbed and read back
MaxGetterCalls == 3
GetterTypes == {"videos", "sharing"}

InitGetters == InitStoreVars /\ RenderersIdle /\ calls = MaxGetterCalls

NextGetters ==
    \/ GetSelectedView(GetterTypes, StoreIds)
    \/ SetSelectedView(GetterTypes, StoreIds, {STANDARD_VIEW, LIST_VIEW})
    \/ GetFilters(GetterTypes, StoreIds)
    \/ ToggleFilters(GetterTypes, StoreIds, {FILTER_VIEW_ALL, FILTER_UNWATCHED})
    \/ GetColumnsEnabled(GetterTypes, StoreIds, {LIST_VIEW})
    \/ SetColumnsEnabled(GetterTypes, StoreIds, {LIST_VIEW}, {<<"name">>})
    \/ ToggleColumn(GetterTypes, StoreIds, {LIST_VIEW}, {"name", "artist"})
    \/ GetScrollPosition(GetterTypes, StoreIds, {LIST_VIEW})
    \/ SetScrollPosition(GetterTypes, StoreIds, {LIST_VIEW}, {<<0, 0>>, <<0, 7>>})

SpecGetters == InitGetters /\ [][NextGetters]_vars

---------------------------------------------------------------------------
(* Claims about the store *)

\* the key a call addresses
CallDisplayKey(c) == <<c.dt, unicode(c.id[1])>>
CallViewKey(c) == <<c.dt, unicode(c.id[1]), c.vt[1]>>

DisplayMutators ==
    {"set_selected_view", "toggle_filters", "set_columns_enabled",
     "toggle_column", "update_column_widths"}
ViewMutators == {"set_sort_state", "set_scroll_position"}

\* the messages of one call that are about one key
MessagesFor(msgs, kind, key) ==
    LET About(m) == m.kind = kind /\ m.key = key
    IN  SelectSeq(msgs, About)

\* how many messages a call sends for an entity it creates
ExpectedSaves(c, mutators) ==
    IF c.op \in mutators /\ c.err = "" THEN 2 ELSE 1

\* C4: a call that finds no DisplayInfo (ViewInfo) for a key creates it and
\* sends exactly one Save message for the key carrying the entity with every
\* field unset, before anything else is sent for the key; a getter sends
\* nothing more for it and returns the default, a setter sends the one
\* further message of its own change.
C4_LazyCreatePersistsOnce ==
    [][/\ \A k \in (DOMAIN displays') \ (DOMAIN displays) :
            LET ms == MessagesFor(sent', "display", k)
            IN  /\ Len(ms) = ExpectedSaves(ret', DisplayMutators)
                /\ ms[1].info = DisplayInfo
       /\ \A k \in (DOMAIN views') \ (DOMAIN views) :
            LET ms == MessagesFor(sent', "view", k)
            IN  /\ Len(ms) = ExpectedSaves(ret', ViewMutators)
                /\ ms[1].info = ViewInfo
       /\ (/\ ret'.op = "get_selected_view" /\ ret'.err = ""
           /\ CallDisplayKey(ret') \notin DOMAIN displays)
          => ret'.val = DEFAULT_VIEW_TYPE[ret'.dt]
       /\ (/\ ret'.op = "get_filters"
           /\ CallDisplayKey(ret') \notin DOMAIN displays)
          => ret'.val = DEFAULT_DISPLAY_FILTERS
       /\ (/\ ret'.op = "get_scroll_position"
           /\ CallViewKey(ret') \notin DOMAIN views)
          => ret'.val = <<0, 0>>
      ]_vars

\* C4 witness: a getter has just created the display it was asked about
C4_Witness ==
    /\ ret.op = "get_filters"
    /\ ret.dt = "videos"
    /\ Len(sent) = 1
    /\ sent[1].key = CallDisplayKey(ret)
    /\ calls = MaxStoreCalls - 1

\* C5: when a call returns, every DisplayInfo and ViewInfo in memory is what
\* the latest Save message for its key carried: no field has changed without
\* a Save for that key; and the last message of a mutating call is the
\* Save of the entity the call addressed, carrying its new value.
C5_MutationPersisted ==
    /\ \A k \in DOMAIN displays :
        /\ k \in DOMAIN backend.display
        /\ backend.display[k] = DisplayValue(lists, displays[k])
    /\ \A k \in DOMAIN views :
        /\ k \in DOMAIN backend.view
        /\ backend.view[k] = ViewValue(views[k])
    /\ (ret.op \in DisplayMutators /\ ret.err = "")
       => /\ sent # <<>>
          /\ sent[Len(sent)] =
                [kind |-> "display", key |-> CallDisplayKey(ret),
                 info |-> DisplayValue(lists, displays[CallDisplayKey(ret)])]
    /\ (ret.op \in ViewMutators /\ ret.err = "")
       => /\ sent # <<>>
          /\ sent[Len(sent)] =
                [kind |-> "view", key |-> CallViewKey(ret),
                 info |-> ViewValue(views[CallViewKey(ret)])]

\* the columns enabled for a display as the store holds them now
EnabledNow(dt, k) ==
    IF k \in DOMAIN displays /\ displays[k].list_view_columns # None
    THEN Deref(lists, displays[k].list_view_columns[1])
    ELSE lists[DEFAULT_COLUMNS[dt]]

\* C6 (as the code behaves): get_sort_state for a 'videos' display returns
\* 'name' while no sort state was set; after set_sort_state(..., 'artist')
\* it returns 'artist' for the standard view, and for the list view only
\* while 'artist' is an enabled column; otherwise it returns 'name'.
C6_VideosSortState ==
    (ret.op = "get_sort_state" /\ ret.dt = "videos" /\ ret.err = "")
    => LET stored == views[CallViewKey(ret)].sort_state
           enabled == Elems(EnabledNow(ret.dt, CallDisplayKey(ret)))
       IN  /\ stored = None => ret.val = <<"name">>
           /\ stored = Some(<<"artist">>)
              => ret.val = IF \/ ret.vt = Some(STANDARD_VIEW)
                              \/ "artist" \in enabled
                           THEN <<"artist">>
                           ELSE <<"name">>

\* C6 witness: the list view of a 'videos' display has 'artist' stored and
\* not enabled, and get_sort_state answers 'name'
C6_Witness ==
    /\ ret.op = "get_sort_state"
    /\ ret.dt = "videos"
    /\ ret.vt = Some(LIST_VIEW)
    /\ ret.err = ""
    /\ views[CallViewKey(ret)].sort_state = Some(<<"artist">>)
    /\ "artist" \notin Elems(EnabledNow(ret.dt, CallDisplayKey(ret)))
    /\ ret.val = <<"name">>

\* C6 as stated: after set_sort_state(..., 'artist') get_sort_state for a
\* 'videos' display returns 'artist', and 'name' while nothing was set
C6_Original ==
    (ret.op = "get_sort_state" /\ ret.dt = "videos" /\ ret.err = "")
    => LET stored == views[CallViewKey(ret)].sort_state
       IN  /\ stored = None => ret.val = <<"name">>
           /\ stored = Some(<<"artist">>) => ret.val = <<"artist">>

\* the column a sort key names: the key without its leading '-' signs
SortColumn(sort_key) == sort_key[Len(sort_key)]

\* C7: with a sort key stored, get_sort_state for the list view returns the
\* stored key, leading '-' included, when the column it names is enabled,
\* and the display type's default sort column when it is not; for the
\* standard view it returns the stored key whatever the enabled columns.
C7_SortKeyNeedsEnabledColumn ==
    (/\ ret.op = "get_sort_state" /\ ret.err = ""
     /\ views[CallViewKey(ret)].sort_state # None)
    => LET stored == views[CallViewKey(ret)].sort_state[1]
           enabled == Elems(EnabledNow(ret.dt, CallDisplayKey(ret)))
       IN  /\ ret.vt = Some(STANDARD_VIEW) => ret.val = stored
           /\ (ret.vt = Some(LIST_VIEW) /\ SortColumn(stored) \in enabled)
              => ret.val = stored
           /\ (ret.vt = Some(LIST_VIEW) /\ SortColumn(stored) \notin enabled)
              => ret.val = <<DEFAULT_SORT_COLUMN[ret.dt]>>

\* C7 witness: a descending key on an enabled column comes back, '-' kept
C7_Witness ==
    /\ ret.op = "get_sort_state"
    /\ ret.vt = Some(LIST_VIEW)
    /\ ret.err = ""
    /\ views[CallViewKey(ret)].sort_state = Some(<<"-", "name">>)
    /\ "name" \in Elems(EnabledNow(ret.dt, CallDisplayKey(ret)))
    /\ ret.val = <<"-", "name">>

\* the set of bits of a mask
MaskBits == 0..3
Bits(mask) == {i \in MaskBits : (mask \div (2 ^ i)) % 2 = 1}
SymDiff(a, b) == (a \ b) \cup (b \ a)

\* the filters a display has before a call (FILTER_VIEW_ALL when none stored)
FiltersOf(ds, k) ==
    IF k \in DOMAIN ds /\ ds[k].active_filters # None
    THEN ds[k].active_filters[1]
    ELSE DEFAULT_DISPLAY_FILTERS

\* C8: toggle_filter with FILTER_VIEW_ALL gives FILTER_VIEW_ALL whatever the
\* current filters; with any other filter it flips exactly that filter's
\* bits, so applying the same filter twice gives the original filters back
\* and toggling FILTER_UNWATCHED from FILTER_VIEW_ALL gives the mask with
\* only that bit; toggle_filters stores this result as the display's filters.
C8_ToggleFilterIsXor ==
    [][ret'.op = "toggle_filters"
       => LET k == CallDisplayKey(ret')
              old == FiltersOf(displays, k)
              f == ret'.arg[1]
              new == displays'[k].active_filters
          IN  /\ new # None
              /\ new[1] = toggle_filter(old, f)
              /\ f = FILTER_VIEW_ALL => new[1] = FILTER_VIEW_ALL
              /\ f # FILTER_VIEW_ALL
                 => /\ Bits(new[1]) = SymDiff(Bits(old), Bits(f))
                    /\ new[1] < 2 ^ Cardinality(MaskBits)
                    /\ toggle_filter(new[1], f) = old
              /\ (old = FILTER_VIEW_ALL /\ f = FILTER_UNWATCHED)
                 => new[1] = FILTER_UNWATCHED
      ]_vars

\* C8 witness: a display holding two filters has had one of them toggled off
C8_Witness ==
    /\ ret.op = "toggle_filters"
    /\ ret.arg = Some(FILTER_UNWATCHED)
    /\ calls = MaxFilterCalls - 3
    /\ displays[CallDisplayKey(ret)].active_filters = Some(FILTER_NONFEED)

\* C9: a call naming a display type outside the fixed set, or a view type
\* that is neither list nor standard view, raises; and no DisplayInfo or
\* ViewInfo is ever stored under such a type.
C9_UnknownTypeIsAnError ==
    /\ (/\ ret.op # ""
        /\ \/ ret.dt \notin DisplayTypes
           \/ ret.vt # None /\ ret.vt[1] \notin {STANDARD_VIEW, LIST_VIEW})
       => ret.err # ""
    /\ \A k \in DOMAIN displays : k[1] \in DisplayTypes
    /\ \A k \in DOMAIN views :
        k[1] \in DisplayTypes /\ k[3] \in {STANDARD_VIEW, LIST_VIEW}

\* C10: a getter returns what the latest Save message for its key carried
\* in the field it reads when that field was set (a stored STANDARD_VIEW or
\* FILTER_VIEW_ALL included), and the default otherwise.
C10_GettersReturnLastStored ==
    /\ (ret.op = "get_selected_view" /\ ret.err = "")
       => LET stored == backend.display[CallDisplayKey(ret)].selected_view
          IN  ret.val = IF stored # None THEN stored[1]
                        ELSE DEFAULT_VIEW_TYPE[ret.dt]
    /\ (ret.op = "get_filters" /\ ret.err = "")
       => LET stored == backend.display[CallDisplayKey(ret)].active_filters
          IN  ret.val = IF stored # None THEN stored[1]
                        ELSE DEFAULT_DISPLAY_FILTERS
    /\ (ret.op = "get_columns_enabled" /\ ret.err = "")
       => LET stored == backend.display[CallDisplayKey(ret)].list_view_columns
          IN  ret.val = IF stored # None THEN stored[1]
                        ELSE lists[DEFAULT_COLUMNS[ret.dt]]
    /\ (ret.op = "get_scroll_position" /\ ret.err = "")
       => LET stored == backend.view[CallViewKey(ret)].scroll_position
          IN  ret.val = IF stored # None THEN stored[1] ELSE <<0, 0>>

---------------------------------------------------------------------------
(* cellpack: LayoutRect and Layout, as the renderers use them.  A Layout is *)
(* the sequence of its elements in the order they were added; an element   *)
(* is [rect, draw, hotspot], draw naming the callback and hotspot being     *)
(* None or the hotspot's name.                                              *)

LayoutRect(x, y, width, height) ==
    [x |-> x, y |-> y, width |-> width, height |-> height]
Right(rect) == rect.x + rect.width
Bottom(rect) == rect.y + rect.height

Max(a, b) == IF a >= b THEN a ELSE b
Min(a, b) == IF a <= b THEN a ELSE b

\* rect.subsection(left, right, top, bottom): the rect inside the margins
subsection(rect, left, right, top, bottom) ==
    LayoutRect(rect.x + left, rect.y + top,
               Max(0, rect.width - left - right),
               Max(0, rect.height - top - bottom))
left_side(rect, width) == LayoutRect(rect.x, rect.y, width, rect.height)
right_side(rect, width) ==
    LayoutRect(Right(rect) - width, rect.y, width, rect.height)
bottom_side(rect, height) ==
    LayoutRect(rect.x, Bottom(rect) - height, rect.width, height)
past_right(rect, width) == LayoutRect(Right(rect), rect.y, width, rect.height)

Element(rect, draw, hotspot) == [rect |-> rect, draw |-> draw, hotspot |-> hotspot]

\* Layout.add / add_rect / add_image (an image is its size) / merge
add(ly, x, y, width, height, draw, hotspot) ==
    Append(ly, Element(LayoutRect(x, y, width, height), draw, hotspot))
add_rect(ly, rect, draw, hotspot) == Append(ly, Element(rect, draw, hotspot))
add_image(ly, image, x, y, hotspot) ==
    add(ly, x, y, image.size[1], image.size[2], image.name, hotspot)
merge(ly, other) == ly \o other
last_rect(ly) == ly[Len(ly)].rect

\* Layout.center_y(top, bottom): every element moves by the one offset that
\* centers the elements' common extent between top and bottom
center_y(ly, top, bottom) ==
    IF ly = <<>> THEN ly
    ELSE LET ys == {ly[i].rect.y : i \in 1..Len(ly)}
             bs == {Bottom(ly[i].rect) : i \in 1..Len(ly)}
             lo == CHOOSE v \in ys : \A w \in ys : v <= w
             hi == CHOOSE v \in bs : \A w \in bs : v >= w
             delta == top + ((bottom - top) - (hi - lo)) \div 2 - lo
         IN  [i \in 1..Len(ly) |->
                 [ly[i] EXCEPT !.rect.y = @ + delta]]

is_point_inside(rect, x, y) ==
    /\ rect.x <= x /\ x < Right(rect)
    /\ rect.y <= y /\ y < Bottom(rect)

\* Layout.find_hotspot(x, y): scans from the element added last; answers
\* (hotspot, x and y relative to the element) or None
RECURSIVE find_hotspot_from(_, _, _, _)
find_hotspot_from(ly, i, x, y) ==
    IF i = 0 THEN None
    ELSE IF /\ ly[i].hotspot # None
            /\ is_point_inside(ly[i].rect, x, y)
         THEN Some(<<ly[i].hotspot[1], x - ly[i].rect.x,
                     y - ly[i].rect.y>>)
         ELSE find_hotspot_from(ly, i - 1, x, y)

find_hotspot(ly, x, y) == find_hotspot_from(ly, Len(ly), x, y)

\* a scan from the element added first
RECURSIVE find_first_hotspot_from(_, _, _, _)
find_first_hotspot_from(ly, i, x, y) ==
    IF i > Len(ly) THEN None
    ELSE IF /\ ly[i].hotspot # None
            /\ is_point_inside(ly[i].rect, x, y)
         THEN Some(<<ly[i].hotspot[1], x - ly[i].rect.x,
                     y - ly[i].rect.y>>)
         ELSE find_first_hotspot_from(ly, i + 1, x, y)

---------------------------------------------------------------------------
(* ListViewRenderer *)

\* hotspot_test with the elements searched from the first one added
ListViewRenderer_hotspot_test_first(layout_all, x, y) ==
    LET hotspot_info == find_first_hotspot_from(layout_all, 1, x, y)
    IN  IF hotspot_info = None THEN None ELSE Some(hotspot_info[1][1])

\* ListViewRenderer.hotspot_test; layout_all is the Layout the subclass's
\* layout_all returns
ListViewRenderer_hotspot_test(layout_all, x, y) ==
    LET hotspot_info == find_hotspot(layout_all, x, y)
    IN  IF hotspot_info = None THEN None ELSE Some(hotspot_info[1][1])

StoreIdle ==
    /\ InitStoreVars
    /\ calls = 0

\* ListViewRenderer.hotspot_test at one of the given points
ListViewHotspotTest(POINTS) ==
    \E p \in POINTS :
        /\ tested' = Some([x |-> p[1], y |-> p[2],
                           result |-> ListViewRenderer_hotspot_test(
                                          layout, p[1], p[2])])
        /\ UNCHANGED <<storeVars, ret, calls, layout, info, env, ir, rendered, status>>

\* SpecLayout: every Layout of up to MaxElements elements over a small grid,
\* hit-tested at every point of the grid
MaxElements == 3
GridRects == {LayoutRect(x, 0, w, 1) : x \in 0..1, w \in 1..2}
GridHotspots == {None, Some("a"), Some("b")}
GridElements == {Element(r, "draw", h) : r \in GridRects, h \in GridHotspots}
GridLayouts == UNION {[1..n -> GridElements] : n \in 0..MaxElements}
GridPoints == (0..3) \X (0..1)

InitLayout ==
    /\ StoreIdle
    /\ layout \in GridLayouts
    /\ info = None /\ env = None /\ ir = None
    /\ tested = None /\ rendered = None /\ status = None

NextLayout == ListViewHotspotTest(GridPoints)

SpecLayout == InitLayout /\ [][NextLayout]_vars

\* the elements of the Layout that carry a hotspot and contain the point
HotspotsAt(l, x, y) ==
    {i \in 1..Len(l) :
        /\ l[i].hotspot # None
        /\ x >= l[i].rect.x /\ x < l[i].rect.x + l[i].rect.width
        /\ y >= l[i].rect.y /\ y < l[i].rect.y + l[i].rect.height}

\* C2: a hit test answers the hotspot of the element added last among the
\* hotspot-tagged elements whose rectangle contains the point (so of B when
\* A was added before B and both contain it), and no hotspot when no
\* hotspot-tagged rectangle contains the point.
C2_LastAddedHotspotWins ==
    tested # None
    => LET hits == HotspotsAt(layout, tested[1].x, tested[1].y)
       IN  IF hits = {}
           THEN tested[1].result = None
           ELSE \E b \in hits :
                   /\ \A a \in hits : a <= b
                   /\ tested[1].result = layout[b].hotspot

\* C2 witness: the point lies in two elements with different hotspots and
\* the hit test answered the one added later
C2_Witness ==
    /\ tested # None
    /\ \E a, b \in HotspotsAt(layout, tested[1].x, tested[1].y) :
        /\ a < b
        /\ layout[a].hotspot # layout[b].hotspot
        /\ tested[1].result = layout[b].hotspot

---------------------------------------------------------------------------
(* ItemRenderer: what it reads.  An item (ItemInfo) and its download_info  *)
(* are records; texts are token sequences; the host environment env holds *)
(* the playback manager's state, the resume preferences, the row's attrs   *)
(* and the scale of the fonts the layout manager hands out.                *)

\* ItemRenderer text assets
REVEAL_IN_TEXT == <<"Reveal File">>
DOWNLOAD_TEXT == <<"Download">>
DOWNLOAD_TORRENT_TEXT == <<"Download Torrent">>
ERROR_TEXT == <<"Error">>
CANCEL_TEXT == <<"Cancel">>
QUEUED_TEXT == <<"Queued for Auto-download">>
UNPLAYED_TEXT == <<"Unplayed">>
CURRENTLY_PLAYING_TEXT == <<"Currently Playing">>
NEWLY_AVAILABLE_TEXT == <<"Newly Available">>
SAVED_TEXT == <<"Saved">>
STOP_SEEDING_TEXT == <<"Stop seeding">>
SHOW_CONTENTS_TEXT == <<"display contents">>

\* ItemRenderer dimensions
MIN_WIDTH == 600
HEIGHT == 147
RIGHT_WIDTH == 90
RIGHT_WIDTH_DOWNLOAD_MODE == 115
IMAGE_WIDTH == 180
EMBLEM_HEIGHT == 20
PADDING == <<15, 15, 5, 5>>
PADDING_BACKGROUND == <<5, 5, 6, 6>>
EMBLEM_TEXT_PAD_START == 4
EMBLEM_TEXT_PAD_END == 20
EMBLEM_TEXT_PAD_END_SMALL == 6
EMBLEM_MARGIN_RIGHT == 12

\* a DownloadInfo
DownloadInfo(state, downloaded_size, total_size, torrent, rate) ==
    [state |-> state, downloaded_size |-> downloaded_size,
     total_size |-> total_size, torrent |-> torrent, rate |-> rate,
     eta |-> 30, short_reason_failed |-> <<"File not found">>,
     startup_activity |-> <<"starting up">>]

\* an item that is not downloaded, not playable and has nothing optional
PlainItem ==
    [id |-> 1, name |-> <<"An item">>, state |-> "not-downloaded",
     downloaded |-> FALSE, is_playable |-> FALSE, has_drm |-> FALSE,
     download_info |-> None, pending_auto_dl |-> FALSE,
     video_watched |-> FALSE, item_viewed |-> FALSE, resume_time |-> 0,
     file_type |-> "video", is_external |-> FALSE, source_type |-> "feed",
     expiration_date |-> None, feed_name |-> <<"Feed">>,
     description_links |-> <<>>, children |-> FALSE,
     mime_type |-> "video/ogg", up_rate |-> 0, up_total |-> 0, size |-> 100,
     extra |-> <<<<"Jan 1">>, <<>>, <<"10 MB">>, <<>>>>]

\* app.playback_manager and app.config as the renderer sees them, and the
\* attrs the host sets on the renderer for the row
Env(playing_id, is_paused, resume, keep_alpha, scale) ==
    [playing_id |-> playing_id, is_paused |-> is_paused, resume |-> resume,
     keep_alpha |-> keep_alpha, throbber_value |-> 7, scale |-> scale]

\* app.playback_manager.is_playing_id(id)
is_playing_id(e, id) == e.playing_id = Some(id)

\* app.config.get(resume_pref): resume is the set of modes switched on
config_get(e, resume_pref) == resume_pref \in e.resume

\* displaytext.short_time_string
short_time_string(seconds) ==
    IF seconds = 0 THEN "0:00" ELSE IF seconds = 90 THEN "1:30" ELSE "9:59"

---------------------------------------------------------------------------
(* _EmblemDrawer: the attributes the drawer object keeps.  An attribute    *)
(* that was never assigned is None.                                        *)

\* _EmblemDrawer.__init__
NewEmblemDrawer(is_podcast) ==
    [is_podcast |-> is_podcast, info |-> None, hotspot |-> None,
     text |-> None, image |-> None, margin_right |-> None,
     text_bold |-> None, text_color |-> None, text_shadow |-> None,
     emblem |-> None]

\* _EmblemDrawer.should_resume_item
should_resume_item(d, e) ==
    LET item == d.info[1]
        resume_pref == IF d.is_podcast THEN "RESUME_PODCASTS_MODE"
                       ELSE IF item.file_type = "video"
                            THEN "RESUME_VIDEOS_MODE"
                            ELSE "RESUME_MUSIC_MODE"
    IN  /\ item.is_playable
        /\ item.item_viewed
        /\ item.resume_time > 0
        /\ config_get(e, resume_pref)

\* an emblem's assignments on top of the reset the method starts with
EmblemParts(d, emblem, text, text_bold, color, image, margin_right) ==
    [d EXCEPT !.text = Some(text), !.image = image,
              !.margin_right = Some(margin_right),
              !.text_bold = Some(text_bold),
              !.text_color = Some(color \o "_TEXT_COLOR"),
              !.text_shadow = Some(color \o "_TEXT_SHADOW"),
              !.emblem = Some(emblem)]

\* _calc_emblem_parts: the elif branches below the DRM test
_calc_emblem_parts_elif(d, e) ==
    LET item == d.info[1]
        pad == EMBLEM_TEXT_PAD_END
    IN  IF /\ item.download_info # None
           /\ item.download_info[1].state = "failed"
        THEN EmblemParts(d, "failed",
                 ERROR_TEXT \o <<"-">> \o item.download_info[1].short_reason_failed,
                 TRUE, "FAILED", Some("status-icon-alert"), pad)
        ELSE IF item.pending_auto_dl
        THEN EmblemParts(d, "queued", QUEUED_TEXT, FALSE, "QUEUED", None, pad)
        ELSE IF item.downloaded /\ is_playing_id(e, item.id)
        THEN EmblemParts(d, "unplayed", CURRENTLY_PLAYING_TEXT, FALSE,
                         "UNPLAYED", None, pad)
        ELSE IF item.downloaded /\ ~item.video_watched /\ item.is_playable
        THEN EmblemParts(d, "unplayed", UNPLAYED_TEXT, TRUE, "UNPLAYED",
                         None, pad)
        ELSE IF should_resume_item(d, e)
        THEN EmblemParts(d, "resume",
                 <<"Resume at ", short_time_string(item.resume_time)>>,
                 TRUE, "RESUME", None, EMBLEM_TEXT_PAD_END_SMALL)
        ELSE IF ~item.item_viewed /\ item.state = "new"
        THEN EmblemParts(d, "newly", NEWLY_AVAILABLE_TEXT, TRUE,
                         "NEWLY_AVAILABLE", None, EMBLEM_TEXT_PAD_END_SMALL)
        ELSE [d EXCEPT !.text = None, !.image = None,
                       !.margin_right = Some(pad), !.text_bold = Some(FALSE)]

\* _calc_emblem_parts with the unplayed test ahead of the DRM test
_calc_emblem_parts_unplayed_first(d, e) ==
    LET item == d.info[1]
    IN  IF item.downloaded /\ ~item.video_watched /\ item.is_playable
        THEN EmblemParts(d, "unplayed", UNPLAYED_TEXT, TRUE, "UNPLAYED",
                         None, EMBLEM_TEXT_PAD_END)
        ELSE IF item.has_drm
        THEN EmblemParts(d, "drm", <<"DRM locked">>, TRUE, "DRM", None,
                         EMBLEM_TEXT_PAD_END)
        ELSE _calc_emblem_parts_elif(d, e)

\* _EmblemDrawer._calc_emblem_parts
_calc_emblem_parts(d, e) ==
    IF d.info[1].has_drm
    THEN EmblemParts(d, "drm", <<"DRM locked">>, TRUE, "DRM", None,
                     EMBLEM_TEXT_PAD_END)
    ELSE _calc_emblem_parts_elif(d, e)

---------------------------------------------------------------------------
(* ItemRenderer: the attributes the renderer object keeps between calls.   *)
(* An attribute that was never assigned is None.                           *)

\* ItemRenderer.__init__
NewItemRenderer(display_channel, is_podcast) ==
    [display_channel |-> display_channel, is_podcast |-> is_podcast,
     selected |-> Some(FALSE), hotspot |-> None, hover |-> None,
     download_info |-> None, download_mode |-> None,
     throbber_mode |-> None, text_top |-> None,
     description_width |-> None, description_text_start |-> None,
     description_links |-> None, expire_background_alpha |-> None,
     emblem_drawer |-> NewEmblemDrawer(is_podcast),
     extra_info_textboxes |-> None]

\* layout_main_bottom hands the item to the emblem drawer, add_to_layout has
\* the drawer work out the emblem's parts
CalcEmblemParts ==
    /\ info # None
    /\ ir' = Some([ir[1] EXCEPT !.emblem_drawer =
                      _calc_emblem_parts([@ EXCEPT !.info = info], env[1])])
    /\ UNCHANGED <<storeVars, ret, calls, layout, info, env, tested, rendered, status>>

\* SpecEmblem: one item for every combination of the attributes the emblem
\* depends on, met by a drawer that is new or was used for another item
Booleans == {FALSE, TRUE}
EmblemDownloads ==
    {None, Some(DownloadInfo("failed", 0, 100, FALSE, 0)),
     Some(DownloadInfo("finished", 100, 100, FALSE, 0))}
EmblemItems ==
    {[PlainItem EXCEPT !.has_drm = drm, !.download_info = dl,
                       !.pending_auto_dl = pending, !.downloaded = downloaded,
                       !.video_watched = watched, !.is_playable = playable,
                       !.item_viewed = viewed, !.resume_time = resume_time,
                       !.file_type = file_type, !.state = state] :
        drm \in Booleans, dl \in EmblemDownloads, pending \in Booleans,
        downloaded \in Booleans, watched \in Booleans, playable \in Booleans,
        viewed \in Booleans, resume_time \in {0, 90},
        file_type \in {"video", "audio"}, state \in {"new", "saved"}}
EmblemEnvs ==
    {Env(playing, FALSE, resume, 0, 1) :
        playing \in {None, Some(1)}, resume \in {{}, {"RESUME_VIDEOS_MODE"}}}

\* the items an emblem drawer was used for before
OtherItems ==
    {[PlainItem EXCEPT !.id = 2, !.has_drm = TRUE],
     [PlainItem EXCEPT !.id = 2, !.state = "new"]}
UsedRenderers ==
    {NewItemRenderer(TRUE, FALSE)} \cup
    {[NewItemRenderer(TRUE, FALSE) EXCEPT !.emblem_drawer =
         _calc_emblem_parts([@ EXCEPT !.info = Some(i)],
                            Env(None, FALSE, {}, 0, 1))] : i \in OtherItems}

InitEmblem ==
    /\ StoreIdle
    /\ layout = <<>>
    /\ info \in {Some(i) : i \in EmblemItems}
    /\ env \in {Some(e) : e \in EmblemEnvs}
    /\ ir \in {Some(r) : r \in UsedRenderers}
    /\ tested = None /\ rendered = None /\ status = None

NextEmblem == CalcEmblemParts

SpecEmblem == InitEmblem /\ [][NextEmblem]_vars

\* the seven conditions of an emblem, in their order
EmblemCondition(n, item, e, is_podcast) ==
    CASE n = 1 -> item.has_drm
      [] n = 2 -> /\ item.download_info # None
                  /\ item.download_info[1].state = "failed"
      [] n = 3 -> item.pending_auto_dl
      [] n = 4 -> item.downloaded /\ e.playing_id = Some(item.id)
      [] n = 5 -> item.downloaded /\ item.is_playable /\ ~item.video_watched
      [] n = 6 -> /\ item.is_playable /\ item.item_viewed
                  /\ item.resume_time > 0
                  /\ (IF is_podcast THEN "RESUME_PODCASTS_MODE"
                      ELSE IF item.file_type = "video"
                           THEN "RESUME_VIDEOS_MODE"
                           ELSE "RESUME_MUSIC_MODE") \in e.resume
      [] n = 7 -> ~item.item_viewed /\ item.state = "new"

EmblemKeys ==
    <<"drm", "failed", "queued", "unplayed", "unplayed", "resume", "newly">>

EmblemText(n, item) ==
    CASE n = 1 -> <<"DRM locked">>
      [] n = 2 -> <<"Error", "-">> \o item.download_info[1].short_reason_failed
      [] n = 3 -> <<"Queued for Auto-download">>
      [] n = 4 -> <<"Currently Playing">>
      [] n = 5 -> <<"Unplayed">>
      [] n = 6 -> <<"Resume at ", short_time_string(item.resume_time)>>
      [] n = 7 -> <<"Newly Available">>

\* C3: once the drawer has worked out the emblem of the current item, its
\* emblem key and text are those of the first of the seven conditions (DRM
\* locked, download failed, pending auto-download, downloaded and playing,
\* downloaded playable unwatched, resume eligible, unviewed and new) that
\* holds for the item; so a DRM-locked item gets 'drm' even when it is
\* downloaded, playable and unwatched.
C3_FirstEmblemConditionWins ==
    (ir # None /\ info # None /\ ir[1].emblem_drawer.info = info)
    => LET d == ir[1].emblem_drawer
           holding == {n \in 1..7 :
                          EmblemCondition(n, info[1], env[1], d.is_podcast)}
       IN  /\ holding # {}
              => \E n \in holding :
                    /\ \A m \in holding : n <= m
                    /\ d.emblem = Some(EmblemKeys[n])
                    /\ d.text = Some(EmblemText(n, info[1]))
           /\ (info[1].has_drm /\ EmblemCondition(5, info[1], env[1], FALSE))
              => d.emblem = Some("drm") /\ d.emblem # Some("unplayed")

\* C3 witness: the drawer has given 'drm' to an item that is DRM-locked and
\* also downloaded, playable and unwatched
C3_Witness ==
    /\ ir # None /\ info # None
    /\ ir[1].emblem_drawer.info = info
    /\ info[1].has_drm
    /\ info[1].downloaded /\ info[1].is_playable /\ ~info[1].video_watched
    /\ ir[1].emblem_drawer.emblem = Some("drm")

---------------------------------------------------------------------------
(* What the layout manager and the image pool hand to ItemRenderer: fonts, *)
(* text boxes, buttons and images, each known here by its size only.       *)

\* current_font.line_height() of the font set_font selects, at the host's scale
FontLineHeights ==
    [title |-> 17, extra_info |-> 12, description |-> 13, emblem |-> 12,
     emblem_button |-> 11, download_info |-> 10, torrent_details |-> 8,
     list_view |-> 14]
line_height(font, e) == FontLineHeights[font] * e.scale
ascent(font, e) == line_height(font, e) - 3

\* textbox(text).get_size(): eight characters a token, six pixels each
textbox_size(text, font, e) ==
    <<Len(text) * 48 * e.scale, line_height(font, e)>>

\* layout_manager.button(text, pressed, style): its size does not depend on
\* pressed; has_icon is whether set_icon was called on it
button(text, font, has_icon, e) ==
    [name |-> "button",
     size |-> <<textbox_size(text, font, e)[1] + 24
                    + (IF has_icon THEN 12 ELSE 0),
                line_height(font, e) + 10>>]

\* the sizes of the item-renderer-*.png images; a '-pressed' image has the
\* size of the image it replaces
ImageSizes ==
    [menu |-> <<25, 25>>, keep |-> <<25, 25>>, remove |-> <<25, 25>>,
     saved |-> <<25, 25>>, play |-> <<40, 40>>, pause |-> <<40, 40>>,
     pause_download |-> <<47, 22>>, resume_download |-> <<47, 22>>,
     stop_download |-> <<47, 22>>, progress_track |-> <<1, 22>>,
     progress_cap |-> <<10, 22>>,
     icon |-> <<12, 12>>]
ImageKey(image_name) ==
    CASE image_name \in {"menu", "menu-pressed"} -> "menu"
      [] image_name \in {"keep", "keep-pressed"} -> "keep"
      [] image_name \in {"remove", "remove-pressed"} -> "remove"
      [] image_name = "saved" -> "saved"
      [] image_name \in {"play", "play-pressed"} -> "play"
      [] image_name \in {"pause", "pause-pressed"} -> "pause"
      [] image_name \in {"download-pause", "download-pause-pressed"}
            -> "pause_download"
      [] image_name \in {"download-resume", "download-resume-pressed"}
            -> "resume_download"
      [] image_name \in {"download-stop", "download-stop-pressed"}
            -> "stop_download"
      [] image_name = "progress-track" -> "progress_track"
      [] image_name \in {"progress-left-cap", "progress-right-cap"}
            -> "progress_cap"
      [] OTHER -> "icon"

\* self.images[image_name]
images(image_name) ==
    [name |-> image_name, size |-> ImageSizes[ImageKey(image_name)]]

\* Layout.add_text_line(textbox, x, y, width, hotspot): one line of the
\* textbox's font
add_text_line(ly, draw, font, e, x, y, width, hotspot) ==
    add(ly, x, y, width, line_height(font, e), draw, hotspot)

---------------------------------------------------------------------------
(* ItemRenderer: layout.  A layout method takes and returns c = [ly, r]:   *)
(* the Layout being filled and the renderer's attributes; the guides that  *)
(* setup_guides computes are in g.                                         *)

\* calc_download_mode that keeps the throbber_mode the renderer already has
calc_download_mode_once(r, item) ==
    IF item.state \in {"downloading", "paused"}
    THEN IF item.download_info = None
         THEN [r |-> [r EXCEPT !.download_mode = Some(TRUE)],
               err |-> "AttributeError"]
         ELSE LET dl_info == item.download_info[1]
              IN  [r |-> [r EXCEPT !.download_mode = Some(TRUE),
                                   !.throbber_mode =
                                       IF @ # None THEN @
                                       ELSE Some(/\ dl_info.downloaded_size > 0
                                                 /\ dl_info.total_size < 0)],
                   err |-> ""]
    ELSE [r |-> [r EXCEPT !.download_mode = Some(FALSE)], err |-> ""]

\* ItemRenderer.calc_download_mode; err is the exception it raises
calc_download_mode(r, item) ==
    IF item.state \in {"downloading", "paused"}
    THEN IF item.download_info = None
         THEN [r |-> [r EXCEPT !.download_mode = Some(TRUE)],
               err |-> "AttributeError"]
         ELSE LET dl_info == item.download_info[1]
              IN  [r |-> [r EXCEPT !.download_mode = Some(TRUE),
                                   !.throbber_mode =
                                       Some(/\ dl_info.downloaded_size > 0
                                            /\ dl_info.total_size < 0)],
                   err |-> ""]
    ELSE [r |-> [r EXCEPT !.download_mode = Some(FALSE)], err |-> ""]

\* ItemRenderer.setup_guides
setup_guides(r, width, height) ==
    LET total_rect == LayoutRect(0, 0, width, height)
        background_rect ==
            subsection(total_rect, PADDING[1], PADDING[2], PADDING[3], PADDING[4])
        inner_rect ==
            subsection(background_rect, PADDING_BACKGROUND[1],
                       PADDING_BACKGROUND[2], PADDING_BACKGROUND[3],
                       PADDING_BACKGROUND[4])
        right_width == IF r.download_mode[1] THEN RIGHT_WIDTH_DOWNLOAD_MODE
                       ELSE RIGHT_WIDTH
    IN  [background_rect |-> background_rect,
         image_rect |-> left_side(inner_rect, IMAGE_WIDTH),
         right_rect |-> right_side(inner_rect, right_width),
         middle_rect |-> subsection(inner_rect, IMAGE_WIDTH + 20,
                                    right_width + 15, 0, 0),
         emblem_bottom |-> Bottom(total_rect) - 29]

\* ItemRenderer.calc_thumbnail_hotspot
calc_thumbnail_hotspot(item) ==
    IF ~item.downloaded THEN Some("thumbnail-download")
    ELSE IF item.is_playable THEN Some("thumbnail-play")
    ELSE None

\* ItemRenderer.layout_simple_elements
layout_simple_elements(c, g, item) ==
    LET l1 == add_rect(c.ly, g.background_rect, "draw_background", None)
        l2 == add_rect(l1, g.image_rect, "draw_thumbnail",
                       calc_thumbnail_hotspot(item))
        l3 == add_rect(l2, past_right(g.image_rect, 1),
                       "draw_thumbnail_separator", None)
    IN  [c EXCEPT !.ly = l3]

\* ItemRenderer._make_image_button
_make_image_button(r, image_name, hotspot_name) ==
    IF r.hotspot # Some(hotspot_name)
    THEN images(image_name)
    ELSE images(image_name \o "-pressed")

\* ItemRenderer._add_image_button
_add_image_button(r, ly, x, y, image_name, hotspot_name) ==
    add_image(ly, _make_image_button(r, image_name, hotspot_name), x, y,
              Some(hotspot_name))

\* _ExtraInfoDrawer.setup: a textbox for each attribute that has a value
extra_info_setup(item) ==
    LET has_value(attr) == attr # <<>>
    IN  SelectSeq(item.extra, has_value)

\* a reset that leaves the text boxes where they are
extra_info_reset_nothing(r) == r

\* _ExtraInfoDrawer.reset
extra_info_reset(r) == [r EXCEPT !.extra_info_textboxes = Some(<<>>)]

\* _ExtraInfoDrawer.draw, called by layout.draw(context) for the element
\* layout_text added: the texts it draws, each followed by a separator
extra_info_draw(ly, r) ==
    IF \E n \in DOMAIN ly : ly[n].draw = "extra_info_drawer.draw"
    THEN r.extra_info_textboxes[1]
    ELSE <<>>

\* ItemRenderer.add_description_preface: the length of the preface
add_description_preface(r, item) ==
    IF r.display_channel /\ item.feed_name # <<>>
    THEN 8 * Len(item.feed_name) + 2
    ELSE 0

\* the links make_description stores as description_links
make_description_links(item) ==
    IF /\ item.download_info # None
       /\ item.download_info[1].torrent
       /\ item.children
    THEN <<[start |-> 0, end |-> 16, url |-> "#show-torrent-contents"]>>
    ELSE item.description_links

\* layout_text that always starts the text 28 px from the top
layout_text_fixed(c, g, item, e) ==
    LET r == c.r
        extra_height == line_height("extra_info", e)
        total_height == line_height("title", e) + extra_height
                        + line_height("description", e) + 16
        x == g.middle_rect.x
        width == g.middle_rect.width
        text_top == 28
        menu_width == images("menu").size[1]
        menu(l) == IF r.download_mode[1]
                   THEN _add_image_button(r, l, x + width - menu_width,
                                          text_top, "menu",
                                          "#show-context-menu")
                   ELSE l
        title(l) == add_text_line(l, "title.draw", "title", e, x, text_top,
                                  IF r.download_mode[1]
                                  THEN width - menu_width - 5 ELSE width,
                                  None)
        extra_info(l) == add(l, x, Bottom(last_rect(l)) + 8, width,
                             extra_height, "extra_info_drawer.draw", None)
        description(l) == add_text_line(l, "description.draw", "description",
                                        e, x, Bottom(last_rect(l)) + 8, width,
                                        Some("description"))
    IN  [ly |-> description(extra_info(title(menu(c.ly)))),
         r |-> [r EXCEPT !.text_top = Some(text_top),
                         !.description_width = Some(width),
                         !.description_text_start =
                             Some(add_description_preface(r, item)),
                         !.description_links =
                             Some(make_description_links(item)),
                         !.extra_info_textboxes =
                             Some(extra_info_setup(item))]]

\* ItemRenderer.layout_text
layout_text(c, g, item, e) ==
    LET r == c.r
        extra_height == line_height("extra_info", e)
        total_height == line_height("title", e) + extra_height
                        + line_height("description", e) + 16
        x == g.middle_rect.x
        width == g.middle_rect.width
        text_top == Min(28 + total_height, g.middle_rect.y + 80) - total_height
        menu_width == images("menu").size[1]
        menu(l) == IF r.download_mode[1]
                   THEN _add_image_button(r, l, x + width - menu_width,
                                          text_top, "menu",
                                          "#show-context-menu")
                   ELSE l
        title(l) == add_text_line(l, "title.draw", "title", e, x, text_top,
                                  IF r.download_mode[1]
                                  THEN width - menu_width - 5 ELSE width,
                                  None)
        extra_info(l) == add(l, x, Bottom(last_rect(l)) + 8, width,
                             extra_height, "extra_info_drawer.draw", None)
        description(l) == add_text_line(l, "description.draw", "description",
                                        e, x, Bottom(last_rect(l)) + 8, width,
                                        Some("description"))
    IN  [ly |-> description(extra_info(title(menu(c.ly)))),
         r |-> [r EXCEPT !.text_top = Some(text_top),
                         !.description_width = Some(width),
                         !.description_text_start =
                             Some(add_description_preface(r, item)),
                         !.description_links =
                             Some(make_description_links(item)),
                         !.extra_info_textboxes =
                             Some(extra_info_setup(item))]]

\* make_emblem_button that does not ask the playback manager what is playing
make_emblem_button_play(d, e) ==
    LET item == d.info[1]
    IN  IF item.downloaded
        THEN IF item.is_playable
             THEN [button |-> images(IF d.hotspot = Some("play")
                                     THEN "play-pressed" ELSE "play"),
                   hotspot |-> "play"]
             ELSE [button |-> button(REVEAL_IN_TEXT, "emblem_button", FALSE, e),
                   hotspot |-> "show_local_file"]
        ELSE [button |-> button(IF item.mime_type = "application/x-bittorrent"
                                THEN DOWNLOAD_TORRENT_TEXT ELSE DOWNLOAD_TEXT,
                                "emblem_button", TRUE, e),
              hotspot |-> "download"]

\* _EmblemDrawer.make_emblem_button: the button and its hotspot
make_emblem_button(d, e) ==
    LET item == d.info[1]
    IN  IF item.downloaded
        THEN IF item.is_playable
             THEN LET playing == e.playing_id = Some(item.id)
                      hotspot == IF playing THEN "play_pause" ELSE "play"
                      button_name == IF playing /\ ~e.is_paused THEN "pause"
                                     ELSE "play"
                  IN  [button |-> images(IF d.hotspot = Some(hotspot)
                                         THEN button_name \o "-pressed"
                                         ELSE button_name),
                       hotspot |-> hotspot]
             ELSE [button |-> button(REVEAL_IN_TEXT, "emblem_button", FALSE, e),
                   hotspot |-> "show_local_file"]
        ELSE [button |-> button(IF item.mime_type = "application/x-bittorrent"
                                THEN DOWNLOAD_TORRENT_TEXT ELSE DOWNLOAD_TEXT,
                                "emblem_button", TRUE, e),
              hotspot |-> "download"]

\* _EmblemDrawer._add_text_images: the content Layout and the width used
_add_text_images(d, left_x, e) ==
    LET image_width == IF d.image # None THEN images(d.image[1]).size[1]
                       ELSE 0
        size == IF d.text # None THEN textbox_size(d.text[1], "emblem", e)
                ELSE <<0, 0>>
        image(l) == IF d.image # None
                    THEN add_image(l, images(d.image[1]), left_x, 0, None)
                    ELSE l
        text(l) == IF d.text # None
                   THEN add(l, left_x + image_width, 0, size[1], size[2],
                            "textbox.draw", None)
                   ELSE l
    IN  [ly |-> text(image(<<>>)), width |-> image_width + size[1]]

\* _EmblemDrawer.add_to_layout: the Layout, the drawer and the width used
add_to_layout(d0, ly, middle_rect, emblem_bottom, e) ==
    LET x == middle_rect.x
        emblem_top == emblem_bottom - EMBLEM_HEIGHT
        with_button(b, d) ==
            LET button_width == b.button.size[1]
                button_y == emblem_top
                            - (b.button.size[2] - EMBLEM_HEIGHT) \div 2
                emblem_x == x + button_width \div 2
                content_x == x + button_width + EMBLEM_TEXT_PAD_START
                with_content(content) ==
                    LET emblem_right == content_x + content.width
                                        + d.margin_right[1]
                        background(l) ==
                            add(l, emblem_x, emblem_top,
                                emblem_right - emblem_x, EMBLEM_HEIGHT,
                                "draw_emblem_background", None)
                        contents(l) ==
                            merge(l, center_y(content.ly, emblem_top,
                                              emblem_bottom))
                        emblem_button(l) ==
                            add_image(l, b.button, x, button_y,
                                      Some(b.hotspot))
                    IN  [ly |-> emblem_button(contents(background(ly))),
                         d |-> d, width |-> emblem_right - x]
            IN  IF d.image = None /\ d.text = None
                THEN [ly |-> add_image(ly, b.button, x, button_y,
                                       Some(b.hotspot)),
                      d |-> d, width |-> button_width]
                ELSE with_content(_add_text_images(d, content_x, e))
    IN  with_button(make_emblem_button(d0, e), _calc_emblem_parts(d0, e))

\* ItemRenderer.calc_extra_button: None or (text, hotspot_name)
calc_extra_button(item) ==
    IF item.download_info # None /\ item.download_info[1].state = "uploading"
    THEN Some([text |-> STOP_SEEDING_TEXT, hotspot |-> "stop_seeding"])
    ELSE IF item.pending_auto_dl
    THEN Some([text |-> CANCEL_TEXT, hotspot |-> "cancel_auto_download"])
    ELSE None

\* ItemRenderer.add_extra_button
add_extra_button(ly, emblem_bottom, item, left, e) ==
    LET button_info == calc_extra_button(item)
    IN  IF button_info = None THEN ly
        ELSE LET b == button(button_info[1].text, "emblem", FALSE, e)
                 button_height == b.size[2]
                 y == emblem_bottom - (EMBLEM_HEIGHT - button_height) \div 2
                      - button_height
             IN  add_image(ly, b, left, y, Some(button_info[1].hotspot))

\* ItemRenderer.layout_main_bottom
layout_main_bottom(c, g, item, e) ==
    LET with_emblem(em) ==
            [ly |-> add_extra_button(em.ly, g.emblem_bottom, item,
                                     g.middle_rect.x + em.width
                                         + EMBLEM_MARGIN_RIGHT, e),
             r |-> [c.r EXCEPT !.emblem_drawer = em.d]]
    IN  with_emblem(add_to_layout([c.r.emblem_drawer EXCEPT
                                       !.info = Some(item),
                                       !.hotspot = c.r.hotspot],
                                  c.ly, g.middle_rect, g.emblem_bottom, e))

\* ItemRenderer.layout_expire
layout_expire(ly, rect, text, image, hotspot, e) ==
    LET size == textbox_size(text, "emblem", e)
        text_x == rect.x - EMBLEM_TEXT_PAD_START - size[1]
        background_x == text_x - EMBLEM_TEXT_PAD_END
        background(l) == add(l, background_x, 0,
                             rect.x - background_x + image.size[1] \div 2,
                             EMBLEM_HEIGHT, "draw_expire_background", None)
        textbox(l) == add(l, text_x, 0, size[1], size[2], "textbox.draw",
                          None)
        button_rect(l) == add_image(l, image, rect.x, 0, hotspot)
    IN  merge(ly, center_y(button_rect(textbox(background(<<>>))), rect.y,
                           Bottom(rect)))

\* layout_right that adds the Saved badge whenever the keep animation runs
layout_right_saved(c, g, item, e) ==
    LET r == c.r
        button_width == images("keep").size[1]
        button_height == images("keep").size[2]
        x == Right(g.right_rect) - button_width - 20
        top == r.text_top[1] - 1
        bottom == g.emblem_bottom
        expire_rect == LayoutRect(x, bottom - button_height, button_width,
                                  button_height)
        menu(l) == _add_image_button(r, l, x, top, "menu",
                                     "#show-context-menu")
        remove(l) == IF /\ item.is_external \/ item.downloaded
                        /\ item.source_type # "sharing"
                     THEN _add_image_button(
                              r, l, x, (top + bottom - button_height) \div 2,
                              "remove", "delete")
                     ELSE l
        expire(l) == IF item.expiration_date # None
                     THEN layout_expire(l, expire_rect,
                                        item.expiration_date[1],
                                        _make_image_button(r, "keep", "keep"),
                                        Some("keep"), e)
                     ELSE l
        saved(l) == IF e.keep_alpha > 0
                    THEN layout_expire(l, expire_rect, SAVED_TEXT,
                                       images("saved"), None, e)
                    ELSE l
    IN  [ly |-> saved(expire(remove(menu(c.ly)))),
         r |-> IF item.expiration_date # None
               THEN [r EXCEPT !.expire_background_alpha = Some(100)]
               ELSE IF e.keep_alpha > 0
               THEN [r EXCEPT !.expire_background_alpha = Some(e.keep_alpha)]
               ELSE r]

\* ItemRenderer.layout_right (add_remove_button included)
layout_right(c, g, item, e) ==
    LET r == c.r
        button_width == images("keep").size[1]
        button_height == images("keep").size[2]
        x == Right(g.right_rect) - button_width - 20
        top == r.text_top[1] - 1
        bottom == g.emblem_bottom
        expire_rect == LayoutRect(x, bottom - button_height, button_width,
                                  button_height)
        menu(l) == _add_image_button(r, l, x, top, "menu",
                                     "#show-context-menu")
        remove(l) == IF /\ item.is_external \/ item.downloaded
                        /\ item.source_type # "sharing"
                     THEN _add_image_button(
                              r, l, x, (top + bottom - button_height) \div 2,
                              "remove", "delete")
                     ELSE l
        expire(l) == IF item.expiration_date # None
                     THEN layout_expire(l, expire_rect,
                                        item.expiration_date[1],
                                        _make_image_button(r, "keep", "keep"),
                                        Some("keep"), e)
                     ELSE IF e.keep_alpha > 0
                     THEN layout_expire(l, expire_rect, SAVED_TEXT,
                                        images("saved"), None, e)
                     ELSE l
    IN  [ly |-> expire(remove(menu(c.ly))),
         r |-> IF item.expiration_date # None
               THEN [r EXCEPT !.expire_background_alpha = Some(100)]
               ELSE IF e.keep_alpha > 0
               THEN [r EXCEPT !.expire_background_alpha = Some(e.keep_alpha)]
               ELSE r]

\* layout_progress_bar that leaves the width as it is in throbber mode
layout_progress_bar_unrounded(c, g) ==
    LET r == c.r
        left == g.middle_rect.x
        top == g.emblem_bottom - images("progress-track").size[2]
        height == 22
        end_button_width == 47
        progress_cap_width == 10
        button_width_extra == end_button_width * 2 - progress_cap_width * 2
        width == g.middle_rect.width
        paused == /\ r.download_info[1] # None
                  /\ r.download_info[1][1].state = "paused"
        right_button_x == left + width - end_button_width
        track_x == left + end_button_width
        progress_x == track_x - progress_cap_width
        left_button(l) ==
            _add_image_button(r, l, left, top,
                              IF paused THEN "download-resume"
                              ELSE "download-pause",
                              IF paused THEN "resume" ELSE "pause")
        right_button(l) ==
            _add_image_button(r, l, right_button_x, top, "download-stop",
                              "cancel")
        track(l) ==
            add_rect(l, LayoutRect(track_x, top, right_button_x - track_x,
                                   height), "progress-track.draw", None)
        bar(l) ==
            add_rect(l, LayoutRect(progress_x, top,
                                   (right_button_x - progress_x)
                                       + progress_cap_width, height),
                     "draw_progress_bar", None)
    IN  [c EXCEPT !.ly = bar(track(right_button(left_button(c.ly))))]

\* ItemRenderer.layout_progress_bar
layout_progress_bar(c, g) ==
    LET r == c.r
        left == g.middle_rect.x
        top == g.emblem_bottom - images("progress-track").size[2]
        height == 22
        end_button_width == 47
        progress_cap_width == 10
        button_width_extra == end_button_width * 2 - progress_cap_width * 2
        width == IF r.throbber_mode[1]
                 THEN g.middle_rect.width
                      - ((g.middle_rect.width - button_width_extra) % 10)
                 ELSE g.middle_rect.width
        paused == /\ r.download_info[1] # None
                  /\ r.download_info[1][1].state = "paused"
        right_button_x == left + width - end_button_width
        track_x == left + end_button_width
        progress_x == track_x - progress_cap_width
        left_button(l) ==
            _add_image_button(r, l, left, top,
                              IF paused THEN "download-resume"
                              ELSE "download-pause",
                              IF paused THEN "resume" ELSE "pause")
        right_button(l) ==
            _add_image_button(r, l, right_button_x, top, "download-stop",
                              "cancel")
        track(l) ==
            add_rect(l, LayoutRect(track_x, top, right_button_x - track_x,
                                   height), "progress-track.draw", None)
        bar(l) ==
            add_rect(l, LayoutRect(progress_x, top,
                                   (right_button_x - progress_x)
                                       + progress_cap_width, height),
                     "draw_progress_bar", None)
    IN  [c EXCEPT !.ly = bar(track(right_button(left_button(c.ly))))]

\* displaytext.time_string_0_blank, download_rate and size_string: the text
\* is empty for 0
time_string_0_blank(secs) == IF secs = 0 THEN <<>> ELSE <<"0:30">>
download_rate(rate) == IF rate = 0 THEN <<>> ELSE <<"10 kB/s">>
size_string(nbytes) == IF nbytes = 0 THEN <<>> ELSE <<"10 MB">>

\* add_line of ItemRenderer.layout_download_right
add_line(ly, x, width, e, y, image_name, text, subtext) ==
    LET icon(l) == add_image(l, images(image_name), x,
                             y + ascent("download_info", e)
                                 - images(image_name).size[2] + 3, None)
        textbox(l) == IF text # <<>>
                      THEN add_text_line(l, "textbox.draw", "download_info",
                                         e, x, y, width, None)
                      ELSE l
        subtextbox(l) == IF subtext # <<>>
                         THEN add_text_line(l, "textbox.draw",
                                            "download_info", e, x,
                                            y + line_height("download_info", e),
                                            width, None)
                         ELSE l
    IN  subtextbox(textbox(icon(ly)))

\* lines[:potential_lines] of a tuple of length n: the number of lines kept
SliceLen(n, potential_lines) ==
    IF potential_lines >= 0 THEN Min(n, potential_lines)
    ELSE Max(0, n + potential_lines)

\* the label text boxes of the torrent details, in the order of lines
TorrentLabels == <<"PEERS.draw", "SEEDS.draw", "LEECH.draw", "SHARE.draw">>

\* ItemRenderer.layout_download_right_torrent
layout_download_right_torrent(ly, rect, item, e) ==
    LET height == textbox_size(item.download_info[1].startup_activity,
                               "download_info", e)[2]
        lh == line_height("torrent_details", e)
        kept == SliceLen(4, rect.height \div lh)
        y0 == Bottom(rect) - lh * kept
        labelbox(l, i) == add_text_line(l, TorrentLabels[i], "torrent_details",
                                        e, rect.x, y0 + (i - 1) * lh,
                                        rect.width, None)
        databox(l, i) == add_text_line(l, "databox.draw", "torrent_details",
                                       e, rect.x, y0 + (i - 1) * lh,
                                       rect.width, None)
        line(l, i) == IF i <= kept THEN databox(labelbox(l, i), i) ELSE l
    IN  IF item.download_info[1].rate = 0
        THEN add(ly, rect.x, Bottom(rect) - height, rect.width, height,
                 "textbox.draw", None)
        ELSE line(line(line(line(ly, 1), 2), 3), 4)

\* ItemRenderer.layout_download_right
layout_download_right(c, g, item, e) ==
    LET dl_info == item.download_info[1]
        content_rect == subsection(g.right_rect, 6, 12, 8, 8)
        x == content_rect.x
        width == content_rect.width
        lh == line_height("download_info", e)
        eta == IF item.state = "paused" THEN 0 ELSE dl_info.eta
        rate == IF item.state = "paused" THEN 0 ELSE dl_info.rate
        y1 == g.right_rect.y + 10
        y2 == y1 + Max(19, lh)
        y3 == y2 + Max(25, lh * 2)
        y4 == y3 + Max(25, lh * 2)
        separator(l, y) == add(l, x, y - 1, width, 1,
                               "draw_download_info_separator", None)
        line1(l) == add_line(l, x, width, e, y1, "time-left",
                             time_string_0_blank(eta), <<>>)
        line2(l) == add_line(l, x, width, e, y2, "dl-speed",
                             download_rate(rate),
                             size_string(dl_info.downloaded_size))
        line3(l) == IF dl_info.torrent
                    THEN add_line(l, x, width, e, y3, "ul-speed",
                                  download_rate(item.up_rate),
                                  size_string(item.up_total))
                    ELSE l
        torrent_info(l) ==
            IF dl_info.torrent /\ dl_info.state # "paused"
            THEN layout_download_right_torrent(
                     l, bottom_side(content_rect, Bottom(content_rect) - y4),
                     item, e)
            ELSE l
    IN  [c EXCEPT !.ly =
            torrent_info(separator(line3(separator(line2(separator(
                line1(c.ly), y2)), y3)), y4))]

\* ItemRenderer.layout_all: the Layout and the renderer's attributes after it
layout_all(r, item, e, width, height) ==
    LET g == setup_guides(r, width, height)
        bottom_and_right(c) ==
            IF r.download_mode[1]
            THEN layout_download_right(layout_progress_bar(c, g), g, item, e)
            ELSE layout_right(layout_main_bottom(c, g, item, e), g, item, e)
    IN  bottom_and_right(
            layout_text(layout_simple_elements([ly |-> <<>>, r |-> r], g,
                                               item), g, item, e))

\* int(float(n) / d), or int(w * (float(n) / d)) with w * n for n: the
\* quotient rounded towards zero
Trunc(n, d) ==
    LET abs(v) == IF v < 0 THEN 0 - v ELSE v
        q == abs(n) \div abs(d)
    IN  IF (n < 0) = (d < 0) THEN q ELSE 0 - q

\* one image drawn into the context
Drawn(image, x, y, width, height) ==
    [image |-> image, x |-> x, y |-> y, width |-> width, height |-> height]

\* ItemRenderer.draw_progress_throbber: the images it draws
draw_progress_throbber(e, x, y, width, height) ==
    <<Drawn("progress-throbber-" \o ToString((e.throbber_value % 5) + 1),
            x, y, width, height)>>

\* ItemRenderer.draw_progress_bar: the images it draws
draw_progress_bar(r, item, e, x, y, width, height) ==
    IF r.throbber_mode[1] THEN draw_progress_throbber(e, x, y, width, height)
    ELSE IF item.size = 0 THEN <<>>
    ELSE LET progress_width ==
                 Trunc(width * item.download_info[1].downloaded_size, item.size)
             left == images("progress-left-cap").size[1]
             right == images("progress-right-cap").size[1]
             left_width == Min(left, progress_width)
             right_width == Max(0, progress_width - (width - right))
             middle_width == Max(0, progress_width - left_width - right_width)
         IN  <<Drawn("progress-left-cap", x, y, left_width, height),
               Drawn("progress-middle", x + left, y, middle_width, height),
               Drawn("progress-right-cap", x + width - right, y, right_width,
                     height)>>

\* layout.draw(context), as far as the progress bar goes: what the
\* draw_progress_bar elements of the Layout draw
RECURSIVE layout_draw(_, _, _, _)
layout_draw(ly, r, item, e) ==
    IF ly = <<>> THEN <<>>
    ELSE (IF Head(ly).draw = "draw_progress_bar"
          THEN draw_progress_bar(r, item, e, Head(ly).rect.x, Head(ly).rect.y,
                                 Head(ly).rect.width, Head(ly).rect.height)
          ELSE <<>>) \o layout_draw(Tail(ly), r, item, e)

\* the answer of a hotspot_test that counts the index from the start of the
\* text box, preface included
hotspot_result_from_start(r, hotspot_info, index) ==
    IF hotspot_info = None THEN None
    ELSE IF hotspot_info[1][1] # "description" THEN Some(hotspot_info[1][1])
    ELSE IF index = None THEN None
    ELSE LET i == index[1]
             links == r.description_links[1]
             hit == {n \in 1..Len(links) :
                        links[n].start <= i /\ i < links[n].end}
         IN  IF i < 0 \/ hit = {} THEN None
             ELSE LET first == CHOOSE n \in hit : \A m \in hit : n <= m
                  IN  IF links[first].url = "#show-torrent-contents"
                      THEN Some("show_contents")
                      ELSE Some("description-link:" \o links[first].url)

\* what hotspot_test answers for the hotspot found; index is what
\* textbox.char_at answers for the point
hotspot_result(r, hotspot_info, index) ==
    IF hotspot_info = None THEN None
    ELSE IF hotspot_info[1][1] # "description" THEN Some(hotspot_info[1][1])
    ELSE IF index = None THEN None
    ELSE LET i == index[1] - r.description_text_start[1]
             links == r.description_links[1]
             hit == {n \in 1..Len(links) :
                        links[n].start <= i /\ i < links[n].end}
         IN  IF i < 0 \/ hit = {} THEN None
             ELSE LET first == CHOOSE n \in hit : \A m \in hit : n <= m
                  IN  IF links[first].url = "#show-torrent-contents"
                      THEN Some("show_contents")
                      ELSE Some("description-link:" \o links[first].url)

\* hotspot_test with self.download_info left as the last call set it
ItemRenderer_hotspot_test_stale(r0, item, e, x, y, width, height, index) ==
    LET m == calc_download_mode(IF r0.download_info = None
                                THEN [r0 EXCEPT !.download_info = Some(None)]
                                ELSE r0, item)
        answer(c) ==
            [r |-> extra_info_reset(c.r),
             err |-> "", ly |-> c.ly,
             result |-> hotspot_result(c.r, find_hotspot(c.ly, x, y), index)]
    IN  IF m.err # ""
        THEN [r |-> m.r, err |-> m.err, ly |-> <<>>, result |-> None]
        ELSE answer(layout_all([m.r EXCEPT !.hotspot = None,
                                           !.selected = Some(FALSE),
                                           !.hover = Some(TRUE)],
                               item, e, width, height))

\* ItemRenderer.hotspot_test: the renderer after it, the exception it raises,
\* the Layout it built and its answer
ItemRenderer_hotspot_test(r0, item, e, x, y, width, height, index) ==
    LET m == calc_download_mode(
                 [r0 EXCEPT !.download_info = Some(item.download_info)], item)
        answer(c) ==
            [r |-> extra_info_reset(c.r),
             err |-> "", ly |-> c.ly,
             result |-> hotspot_result(c.r, find_hotspot(c.ly, x, y), index)]
    IN  IF m.err # ""
        THEN [r |-> m.r, err |-> m.err, ly |-> <<>>, result |-> None]
        ELSE answer(layout_all([m.r EXCEPT !.hotspot = None,
                                           !.selected = Some(FALSE),
                                           !.hover = Some(TRUE)],
                               item, e, width, height))

\* ItemRenderer.render: the renderer after it, the exception it raises and
\* the Layout it drew
ItemRenderer_render(r0, item, e, width, height, selected, hotspot, hover) ==
    LET m == calc_download_mode(
                 [r0 EXCEPT !.download_info = Some(item.download_info)], item)
        drawn(c) ==
            [r |-> extra_info_reset(c.r),
             err |-> "", ly |-> c.ly,
             drawn |-> layout_draw(c.ly, c.r, item, e),
             extra_info |-> extra_info_draw(c.ly, c.r)]
    IN  IF m.err # ""
        THEN [r |-> m.r, err |-> m.err, ly |-> <<>>, drawn |-> <<>>,
              extra_info |-> <<>>]
        ELSE drawn(layout_all([m.r EXCEPT !.hotspot = hotspot,
                                          !.selected = Some(selected),
                                          !.hover = Some(hover)],
                              item, e, width, height))

\* the hotspot-tagged regions of a Layout
HotspotRegions(ly) ==
    {<<ly[i].rect, ly[i].hotspot[1]>> :
        i \in {n \in 1..Len(ly) : ly[n].hotspot # None}}

\* the keep animation's timer moves the row's keep-animation-alpha
SetAttrs(ALPHAS) ==
    \E alpha \in ALPHAS :
        /\ env # None /\ env[1].keep_alpha # alpha
        /\ env' = Some([env[1] EXCEPT !.keep_alpha = alpha])
        /\ UNCHANGED <<storeVars, ret, calls, layout, info, ir, tested,
                       rendered, status>>

\* the host hit-tests the row
HotspotTest(SIZES, POINTS, INDEXES) ==
    \E size \in SIZES, p \in POINTS, index \in INDEXES :
        /\ info # None
        /\ LET out == ItemRenderer_hotspot_test(ir[1], info[1], env[1],
                          p[1], p[2], size[1], size[2], index)
           IN  /\ ir' = Some(out.r)
               /\ tested' = Some([size |-> size, err |-> out.err,
                                  ly |-> out.ly, result |-> out.result])
        /\ UNCHANGED <<storeVars, ret, calls, layout, info, env, rendered, status>>

\* the host paints the row
Render(SIZES, FLAGS) ==
    \E size \in SIZES, f \in FLAGS :
        /\ info # None
        /\ LET out == ItemRenderer_render(ir[1], info[1], env[1], size[1],
                          size[2], f.selected, f.hotspot, f.hover)
           IN  /\ ir' = Some(out.r)
               /\ rendered' = Some([size |-> size, flags |-> f,
                                    err |-> out.err, ly |-> out.ly,
                                    drawn |-> out.drawn,
                                    extra_info |-> out.extra_info])
        /\ UNCHANGED <<storeVars, ret, calls, layout, info, env, tested, status>>

\* SpecItem: a row in either mode, hit-tested and painted at two cell sizes
\* by a renderer that is new or has painted another row before
Downloading == DownloadInfo("downloading", 50, 100, FALSE, 10)
ItemItems ==
    {[PlainItem EXCEPT !.pending_auto_dl = TRUE,
                       !.description_links =
                           <<[start |-> 0, end |-> 5, url |-> "http://a"]>>],
     [PlainItem EXCEPT !.downloaded = TRUE, !.is_playable = TRUE,
                       !.state = "newly-downloaded",
                       !.expiration_date = Some(<<"Expires", "soon">>)],
     [PlainItem EXCEPT !.downloaded = TRUE, !.state = "saved",
                       !.is_external = TRUE, !.children = TRUE,
                       !.download_info =
                           Some(DownloadInfo("uploading", 100, 100, TRUE, 0))],
     [PlainItem EXCEPT !.state = "downloading",
                       !.download_info = Some(Downloading)],
     [PlainItem EXCEPT !.state = "paused",
                       !.extra = <<<<"Feb 2">>, <<"5 min">>, <<>>, <<"ogg">>>>,
                       !.download_info =
                           Some(DownloadInfo("paused", 50, 100, FALSE, 0))],
     [PlainItem EXCEPT !.state = "downloading", !.up_rate = 5,
                       !.download_info =
                           Some(DownloadInfo("downloading", 50, -1, TRUE, 10))],
     [PlainItem EXCEPT !.state = "downloading",
                       !.download_info =
                           Some(DownloadInfo("downloading", 0, 100, TRUE, 0))],
     [PlainItem EXCEPT !.state = "downloading"]}
ItemEnvs ==
    {Env(None, FALSE, {}, 0, 1), Env(Some(1), FALSE, {}, 0, 1),
     Env(Some(1), TRUE, {}, 0, 2)}
ItemAlphas == {0, 50}
ItemSizes == {<<MIN_WIDTH, HEIGHT>>, <<MIN_WIDTH + 55, HEIGHT>>}
ItemPoints == {<<30, 30>>, <<240, 110>>, <<240, 70>>}
ItemIndexes == {None, Some(12)}
ItemFlags ==
    {[selected |-> FALSE, hotspot |-> None, hover |-> FALSE],
     [selected |-> TRUE, hotspot |-> Some("play"), hover |-> TRUE],
     [selected |-> TRUE, hotspot |-> Some("resume"), hover |-> FALSE]}

UsedItems == {i \in ItemItems : i.state \in {"newly-downloaded", "paused"}}
UsedItemRenderers ==
    {NewItemRenderer(TRUE, FALSE)} \cup
    {ItemRenderer_render(NewItemRenderer(TRUE, FALSE), i,
                         Env(None, FALSE, {}, 0, 1), MIN_WIDTH, HEIGHT,
                         FALSE, None, FALSE).r : i \in UsedItems}

InitItem ==
    /\ StoreIdle
    /\ layout = <<>>
    /\ info \in {Some(i) : i \in ItemItems}
    /\ env \in {Some(e) : e \in ItemEnvs}
    /\ ir \in {Some(r) : r \in UsedItemRenderers}
    /\ tested = None /\ rendered = None /\ status = None

NextItem ==
    \/ SetAttrs(ItemAlphas)
    \/ HotspotTest(ItemSizes, ItemPoints, ItemIndexes)
    \/ Render(ItemSizes, ItemFlags)

SpecItem == InitItem /\ [][NextItem]_vars

\* C1: when hotspot_test and render have both laid out the same item at the
\* same cell size, in download mode or not, the hotspot-tagged regions
\* (rectangle and hotspot id) of the two Layouts are the same set, whatever
\* selected, hover and hotspot render was given.
C1_SameHotspotRegions ==
    (/\ tested # None /\ rendered # None
     /\ tested[1].err = "" /\ rendered[1].err = ""
     /\ tested[1].size = rendered[1].size)
    => HotspotRegions(tested[1].ly) = HotspotRegions(rendered[1].ly)

\* C1 witness: a paused download was hit-tested and then painted with a
\* pressed hotspot at the same size, the Layouts differ and the resume
\* button is among the regions
C1_Witness ==
    /\ tested # None /\ rendered # None
    /\ tested[1].err = "" /\ rendered[1].err = ""
    /\ tested[1].size = rendered[1].size
    /\ ir[1].download_mode = Some(TRUE)
    /\ rendered[1].flags.hotspot = Some("resume")
    /\ tested[1].ly # rendered[1].ly
    /\ \E reg \in HotspotRegions(rendered[1].ly) : reg[2] = "resume"

---------------------------------------------------------------------------
(* More claims about the store *)

\* the columns enabled for a display in the maps ds and the list objects ls
EnabledIn(ds, ls, dt, k) ==
    IF k \in DOMAIN ds /\ ds[k].list_view_columns # None
    THEN Deref(ls, ds[k].list_view_columns[1])
    ELSE ls[DEFAULT_COLUMNS[dt]]

\* the columns of seq other than column, in their order
OtherColumns(seq, column) ==
    LET other(c) == c # column
    IN  SelectSeq(seq, other)

\* C11: a toggle_column call on a list view removes the column from the
\* display's enabled columns when it was present and adds it when it was
\* absent, every other enabled column staying in place; toggling the same
\* column once more gives the original set of enabled columns back.
C11_ToggleColumnIsSymmetricDifference ==
    [][(ret'.op = "toggle_column" /\ ret'.err = "")
       => LET k == CallDisplayKey(ret')
              column == ret'.arg[1]
              old == EnabledIn(displays, lists, ret'.dt, k)
              new == EnabledIn(displays', lists', ret'.dt, k)
              again == toggle_column(Store', ret'.dt, ret'.id[1], ret'.vt[1],
                                     column).s
              twice == EnabledIn(again.displays, again.lists, ret'.dt, k)
          IN  /\ ret'.vt = Some(LIST_VIEW)
              /\ (column \in Elems(old)) = (column \notin Elems(new))
              /\ Elems(new) = SymDiff(Elems(old), {column})
              /\ OtherColumns(new, column) = OtherColumns(old, column)
              /\ Elems(twice) = Elems(old)
      ]_vars

\* C11 witness: a column that was toggled off a display's default columns
\* has been toggled a second time and is enabled again, now in last place
C11_Witness ==
    /\ ret.op = "toggle_column" /\ ret.err = ""
    /\ calls = MaxGetterCalls - 2
    /\ LET now == EnabledNow(ret.dt, CallDisplayKey(ret))
       IN  /\ Elems(now) = Elems(InitialLists[DEFAULT_COLUMNS[ret.dt]])
           /\ now # InitialLists[DEFAULT_COLUMNS[ret.dt]]
           /\ now[Len(now)] = ret.arg[1]

---------------------------------------------------------------------------
(* More claims about ItemRenderer *)

\* SpecButton: a new renderer paints one row that is not being downloaded,
\* for every combination of the attributes the emblem and its button depend
\* on, while nothing, this item or another item is playing
ButtonItems ==
    {i \in EmblemItems : i.resume_time = 0 /\ i.file_type = "video"}
ButtonEnvs ==
    {Env(playing, paused, {}, 0, 1) :
        playing \in {None, Some(1), Some(2)}, paused \in Booleans}
ButtonFlags ==
    {[selected |-> FALSE, hotspot |-> None, hover |-> FALSE],
     [selected |-> TRUE, hotspot |-> Some("play_pause"), hover |-> TRUE]}

InitButton ==
    /\ StoreIdle
    /\ layout = <<>>
    /\ info \in {Some(i) : i \in ButtonItems}
    /\ env \in {Some(e) : e \in ButtonEnvs}
    /\ ir = Some(NewItemRenderer(TRUE, FALSE))
    /\ tested = None /\ rendered = None /\ status = None

NextButton == Render({<<MIN_WIDTH, HEIGHT>>}, ButtonFlags)

SpecButton == InitButton /\ [][NextButton]_vars

\* the hotspots of the button that leads the emblem
LeadingHotspots == {"play_pause", "play", "show_local_file", "download"}

\* the elements of a Layout that are a leading button
LeadingButtons(ly) ==
    {n \in 1..Len(ly) :
        ly[n].hotspot # None /\ ly[n].hotspot[1] \in LeadingHotspots}

\* C12: a row painted in non-download mode has exactly one leading action
\* button whichever emblem condition held, and no emblem background when
\* none held; the button's hotspot is 'play_pause' for a downloaded playable
\* item that is the one loaded in the playback engine, 'play' for a
\* downloaded playable item that is not, 'show_local_file' for a downloaded
\* item that is not playable and 'download' for an item not downloaded.
C12_OneLeadingButton ==
    (rendered # None /\ rendered[1].err = "" /\ ir[1].download_mode = Some(FALSE))
    => LET ly == rendered[1].ly
           item == info[1]
           matched == \E n \in 1..7 : EmblemCondition(n, item, env[1], FALSE)
           backgrounds == {n \in 1..Len(ly) :
                              ly[n].draw = "draw_emblem_background"}
       IN  /\ Cardinality(LeadingButtons(ly)) = 1
           /\ Cardinality(backgrounds) = IF matched THEN 1 ELSE 0
           /\ \A n \in LeadingButtons(ly) :
                 /\ ly[n].rect.x =
                      setup_guides(ir[1], MIN_WIDTH, HEIGHT).middle_rect.x
                 /\ ly[n].hotspot[1] =
                      IF ~item.downloaded THEN "download"
                      ELSE IF ~item.is_playable THEN "show_local_file"
                      ELSE IF env[1].playing_id = Some(item.id)
                           THEN "play_pause"
                           ELSE "play"

\* C12 witness: a downloaded playable item that is the one playing was
\* painted with its play_pause button and the "currently playing" emblem
C12_Witness ==
    /\ rendered # None /\ rendered[1].err = ""
    /\ info[1].downloaded /\ info[1].is_playable /\ ~info[1].has_drm
    /\ env[1].playing_id = Some(info[1].id)
    /\ ir[1].emblem_drawer.text = Some(CURRENTLY_PLAYING_TEXT)
    /\ \E n \in LeadingButtons(rendered[1].ly) :
          rendered[1].ly[n].hotspot = Some("play_pause")

\* the download state calc_download_mode works out for an item that
\* has its download info
DownloadState(item) == item.state \in {"downloading", "paused"}
ThrobberState(item) ==
    /\ item.download_info[1].downloaded_size > 0
    /\ item.download_info[1].total_size < 0

\* a call on the item has run to its end
Completed ==
    \/ tested # None /\ tested[1].err = ""
    \/ rendered # None /\ rendered[1].err = ""

\* the progress-bar elements of a Layout
ProgressBars(ly) == {n \in DOMAIN ly : ly[n].draw = "draw_progress_bar"}

\* C13: after a completed call download_mode is true exactly for the
\* states "downloading" and "paused"; in download mode throbber_mode
\* is true exactly when something was downloaded and the total size is
\* unknown; and the progress bar laid out and drawn in download mode
\* follows the throbber_mode of the item of that call, whatever the
\* renderer held before
C13_DownloadModeIsFresh ==
    Completed =>
        LET item == info[1]
            r == ir[1]
        IN  /\ r.download_mode = Some(DownloadState(item))
            /\ DownloadState(item)
                   => r.throbber_mode = Some(ThrobberState(item))
            /\ (rendered # None /\ DownloadState(item))
                   => /\ ProgressBars(rendered[1].ly) # {}
                      /\ \A n \in ProgressBars(rendered[1].ly) :
                             (rendered[1].ly[n].rect.width % 10 = 0)
                                 \/ ~ThrobberState(item)
                      /\ (\E d \in Elems(rendered[1].drawn) :
                              d.image = "progress-throbber-3")
                             = ThrobberState(item)
            /\ (rendered # None /\ ~DownloadState(item))
                   => rendered[1].drawn = <<>>

\* an item downloading with unknown total size, drawn with a throbber
C13_Witness ==
    /\ rendered # None /\ rendered[1].err = ""
    /\ DownloadState(info[1]) /\ ThrobberState(info[1])
    /\ ir[1].throbber_mode = Some(TRUE)
    /\ \E d \in Elems(rendered[1].drawn) : d.image = "progress-throbber-3"
    /\ \A n \in ProgressBars(rendered[1].ly) :
           rendered[1].ly[n].rect.width % 10 = 0

----------------------------------------------------------------------------
(* RatingRenderer *)

ICON_HORIZONTAL_SPACING == 2
ICON_COUNT == 5
icon_height == 9
icon_width == icon_height

\* RatingRenderer.__init__
NewRatingRenderer == [hover |-> None]

\* icon_index_at_x that does not translate x by half the spacing
icon_index_at_x_untranslated(x) ==
    LET icon_width_with_pad == icon_width + ICON_HORIZONTAL_SPACING
    IN  IF 0 <= x /\ x < icon_width_with_pad * ICON_COUNT
        THEN Some((x \div icon_width_with_pad) + 1)
        ELSE None

\* RatingRenderer.icon_index_at_x
icon_index_at_x(x) ==
    LET icon_width_with_pad == icon_width + ICON_HORIZONTAL_SPACING
        x1 == x + (ICON_HORIZONTAL_SPACING \div 2)
    IN  IF 0 <= x1 /\ x1 < icon_width_with_pad * ICON_COUNT
        THEN Some((x1 \div icon_width_with_pad) + 1)
        ELSE None

\* RatingRenderer.hotspot_test
RatingRenderer_hotspot_test(x) ==
    LET hotspot_index == icon_index_at_x(x)
    IN  IF hotspot_index # None
        THEN Some("rate:" \o ToString(hotspot_index[1]))
        ELSE None

\* RatingRenderer._get_icon: the state of the i-th star
_get_icon(r, item, i) ==
    IF r.hover # None
    THEN IF r.hover[1] >= i THEN "yes" ELSE "no"
    ELSE IF item.rating # None
    THEN IF item.rating[1] >= i THEN "yes" ELSE "no"
    ELSE IF item.auto_rating # None
    THEN IF item.auto_rating[1] >= i THEN "probably" ELSE "unset"
    ELSE "unset"

\* RatingRenderer.render: hover is None or the point hovered over
RatingRenderer_render(r0, item, hover) ==
    LET r == [r0 EXCEPT !.hover = IF hover # None
                                  THEN icon_index_at_x(hover[1])
                                  ELSE None]
    IN  [r |-> r,
         drawn |-> [i \in 1..ICON_COUNT |->
                       [icon |-> _get_icon(r, item, i),
                        x |-> (i - 1) * (icon_width + ICON_HORIZONTAL_SPACING)]]]

\* a hit test of the rating cell at one of the given x
RatingHotspotTest(XS) ==
    \E x \in XS :
        /\ tested' = Some([x |-> x, index |-> icon_index_at_x(x),
                           result |-> RatingRenderer_hotspot_test(x)])
        /\ UNCHANGED <<storeVars, ret, calls, layout, info, env, ir, rendered, status>>

\* the rating cell drawn with the pointer away or over one of the given x
RatingRender(XS) ==
    \E hover \in {None} \cup {Some(x) : x \in XS} :
        LET out == RatingRenderer_render(ir[1], info[1], hover)
        IN  /\ ir' = Some(out.r)
            /\ rendered' = Some([hover |-> hover, drawn |-> out.drawn])
            /\ UNCHANGED <<storeVars, ret, calls, layout, info, env, tested, status>>

\* SpecRating: hit tests and hovers from left of the cell to right of it,
\* on rows that are rated, rated automatically or not rated
RatingXs == (0 - 3) .. 57
RatingHovers == {0 - 2, 0, 10, 30, 54, 55}
RatingItems ==
    {[rating |-> rating, auto_rating |-> auto] :
        rating \in {None, Some(3)}, auto \in {None, Some(4)}}

InitRating ==
    /\ StoreIdle
    /\ layout = <<>>
    /\ info \in {Some(i) : i \in RatingItems}
    /\ env = None
    /\ ir = Some(NewRatingRenderer)
    /\ tested = None /\ rendered = None /\ status = None

NextRating == RatingHotspotTest(RatingXs) \/ RatingRender(RatingHovers)

SpecRating == InitRating /\ [][NextRating]_vars

\* the claim in the words of the specification: x = 10 is still the first
\* star
C14_OriginalIconIndex ==
    tested # None =>
        /\ tested[1].x \in {0, 10} => tested[1].index = Some(1)
        /\ tested[1].x = 11 => tested[1].index = Some(2)
        /\ tested[1].x = 55 => tested[1].index = None
        /\ tested[1].index = None \/ tested[1].index[1] \in 1..5

\* C14: with icons 9 px wide and 2 px apart, icon_index_at_x answers star 1
\* for x = 0, star 2 for x = 10 and for x = 11, and nothing for x = 55
\* (x is moved right by half the spacing before it is divided by 11); the
\* answer is always nothing or a star from 1 to 5
C14_IconIndex ==
    tested # None =>
        /\ tested[1].x = 0 => tested[1].index = Some(1)
        /\ tested[1].x \in {10, 11} => tested[1].index = Some(2)
        /\ tested[1].x = 55 => tested[1].index = None
        /\ tested[1].index = None \/ tested[1].index[1] \in 1..5
        /\ tested[1].result =
               IF tested[1].index = None THEN None
               ELSE Some("rate:" \o ToString(tested[1].index[1]))

\* the hit test at x = 10 has answered the second star
C14_Witness ==
    /\ tested # None
    /\ tested[1].x = 10
    /\ tested[1].index = Some(2)
    /\ tested[1].result = Some("rate:2")

----------------------------------------------------------------------------
(* ProgressBarDrawer and the StatusRenderer cell that uses it.  A progress  *)
(* ratio is the pair <<n, d>> of the float n / d; what is drawn is the       *)
(* sequence of filled rectangles and strokes, each with the method drawing   *)
(* it.                                                                        *)

\* math.floor(math.sqrt(n)) for n >= 0
FloorSqrt(n) == CHOOSE k \in 0..n : k * k <= n /\ (k + 1) * (k + 1) > n

Fill(by, x, y, width, height, color) ==
    [by |-> by, rect |-> LayoutRect(x, y, width, height), color |-> color]

\* ProgressBarDrawer._layout: the attributes it sets before it draws
ProgressBarDrawer_attrs(progress_ratio, x, y, width, height) ==
    LET progress_width == Trunc(width * progress_ratio[1], progress_ratio[2])
        half_height == height \div 2
    IN  [x |-> x, y |-> y, width |-> width, height |-> height,
         progress_width |-> progress_width, half_height |-> half_height,
         progress_end |-> IF progress_width < half_height THEN "left"
                          ELSE IF width - progress_width < half_height
                          THEN "right"
                          ELSE "middle"]

_progress_top_rectangle(pb, by, color) ==
    Fill(by, pb.x, pb.y, pb.progress_width, pb.half_height, color)
_progress_bottom_rectangle(pb, by, color) ==
    Fill(by, pb.x, pb.y + pb.half_height, pb.progress_width, pb.half_height,
         color)
_non_progress_rectangle(pb, by, color) ==
    Fill(by, pb.x + pb.progress_width, pb.y, pb.width - pb.progress_width,
         pb.height, color)

\* ProgressBarDrawer._draw_base
_draw_base(pb) ==
    <<_progress_top_rectangle(pb, "_draw_base", "PROGRESS_BASE_TOP"),
      _progress_bottom_rectangle(pb, "_draw_base", "PROGRESS_BASE_BOTTOM"),
      _non_progress_rectangle(pb, "_draw_base", "BASE")>>

\* ProgressBarDrawer._draw_progress_highlight: nothing, or the stroke and
\* how it ends
_draw_progress_highlight(pb) ==
    IF pb.progress_width - 2 <= 0 THEN <<>>
    ELSE <<[by |-> "_draw_progress_highlight",
            stroke |-> IF pb.progress_end = "left" THEN "arc"
                       ELSE "arc and line",
            color |-> "PROGRESS_BORDER_HIGHLIGHT"]>>

\* _draw_progress_right that draws the seam of a full bar as well
_draw_progress_right_always(pb) ==
    LET radius == pb.half_height
        a == IF pb.progress_end = "left" THEN radius - pb.progress_width
             ELSE pb.progress_width - (pb.width - radius)
        seam(upper_height) ==
            <<Fill("_draw_progress_right", pb.x + pb.progress_width - 1,
                   pb.y + (pb.height \div 2) - upper_height, 1, upper_height,
                   "PROGRESS_BORDER_TOP"),
              Fill("_draw_progress_right", pb.x + pb.progress_width - 1,
                   pb.y + (pb.height \div 2), 1, upper_height,
                   "PROGRESS_BORDER_BOTTOM")>>
    IN  IF pb.progress_end = "middle"
        THEN [ops |-> seam(pb.height \div 2), err |-> ""]
        ELSE IF radius * radius - a * a < 0
        THEN [ops |-> <<>>, err |-> "ValueError"]
        ELSE [ops |-> seam(FloorSqrt(radius * radius - a * a)), err |-> ""]

\* ProgressBarDrawer._draw_progress_right: the seam at the fill boundary;
\* math.sqrt raises ValueError for a negative number
_draw_progress_right(pb) ==
    LET radius == pb.half_height
        a == IF pb.progress_end = "left" THEN radius - pb.progress_width
             ELSE pb.progress_width - (pb.width - radius)
        seam(upper_height) ==
            <<Fill("_draw_progress_right", pb.x + pb.progress_width - 1,
                   pb.y + (pb.height \div 2) - upper_height, 1, upper_height,
                   "PROGRESS_BORDER_TOP"),
              Fill("_draw_progress_right", pb.x + pb.progress_width - 1,
                   pb.y + (pb.height \div 2), 1, upper_height,
                   "PROGRESS_BORDER_BOTTOM")>>
    IN  IF pb.progress_width = pb.width THEN [ops |-> <<>>, err |-> ""]
        ELSE IF pb.progress_end = "middle"
        THEN [ops |-> seam(pb.height \div 2), err |-> ""]
        ELSE IF radius * radius - a * a < 0
        THEN [ops |-> <<>>, err |-> "ValueError"]
        ELSE [ops |-> seam(FloorSqrt(radius * radius - a * a)), err |-> ""]

\* ProgressBarDrawer._draw_border
_draw_border(pb) ==
    LET right == _draw_progress_right(pb)
    IN  [ops |-> <<_progress_top_rectangle(pb, "_draw_border",
                                           "PROGRESS_BORDER_TOP"),
                   _progress_bottom_rectangle(pb, "_draw_border",
                                              "PROGRESS_BORDER_BOTTOM"),
                   _non_progress_rectangle(pb, "_draw_border",
                                           "BORDER_GRADIENT")>>
                     \o _draw_progress_highlight(pb) \o right.ops,
         err |-> right.err]

\* ProgressBarDrawer._layout, which Packer.draw calls with the rectangle
ProgressBarDrawer__layout(progress_ratio, x, y, width, height) ==
    LET pb == ProgressBarDrawer_attrs(progress_ratio, x, y, width, height)
        border == _draw_border(pb)
    IN  [pb |-> pb, ops |-> _draw_base(pb) \o border.ops, err |-> border.err]

\* ItemProgressBarDrawer.__init__ that takes an item without a size to be
\* complete
ItemProgressBarDrawer_full(item) ==
    IF item.download_info # None /\ item.size > 0
    THEN <<item.download_info[1].downloaded_size, item.size>>
    ELSE <<1, 1>>

\* ItemProgressBarDrawer.__init__: the progress ratio
ItemProgressBarDrawer(item) ==
    IF item.download_info # None /\ item.size > 0
    THEN <<item.download_info[1].downloaded_size, item.size>>
    ELSE <<0, 1>>

\* the images/*-button.png of StatusRenderer
StatusButton(name) == [name |-> name \o "-button", size |-> <<16, 16>>]

\* StatusRenderer._calc_status_text: the text and its colour
_calc_status_text(item) ==
    IF item.downloaded
    THEN IF item.is_playable /\ ~item.video_watched
         THEN [text |-> <<"Unplayed">>, color |-> "UNPLAYED_COLOR"]
         ELSE IF item.is_playable /\ item.expiration_date # None
         THEN [text |-> <<"Expires">>, color |-> "EXPIRING_TEXT_COLOR"]
         ELSE [text |-> <<>>, color |-> "default_text_color"]
    ELSE IF item.download_info # None /\ item.download_info[1].rate = 0
    THEN [text |-> CASE item.download_info[1].state = "paused" -> <<"paused">>
                     [] item.download_info[1].state = "pending" -> <<"queued">>
                     [] item.download_info[1].state = "failed"
                            -> item.download_info[1].short_reason_failed
                     [] OTHER -> item.download_info[1].startup_activity,
          color |-> "DOWNLOADING_COLOR"]
    ELSE IF ~item.item_viewed
    THEN [text |-> <<"Newly", "Available">>, color |-> "AVAILABLE_COLOR"]
    ELSE [text |-> <<>>, color |-> "default_text_color"]

\* StatusRenderer.add_extra_button
StatusRenderer_add_extra_button(ly, item, width) ==
    IF item.expiration_date # None
    THEN add_image(ly, StatusButton("keep"),
                   width - StatusButton("keep").size[1], 0, Some("keep"))
    ELSE IF item.state = "downloading"
            /\ item.download_info[1].state = "pending"
    THEN add_image(ly, StatusButton("cancel"),
                   width - StatusButton("cancel").size[1], 0, Some("cancel"))
    ELSE ly

\* StatusRenderer.layout_text
StatusRenderer_layout_text(item, e, width, height) ==
    LET status_text == _calc_status_text(item)
        line(ly) == add_text_line(ly, status_text.color, "list_view", e, 0, 0,
                                  width, None)
    IN  IF status_text.text # <<>>
        THEN center_y(StatusRenderer_add_extra_button(line(<<>>), item, width),
                      0, height)
        ELSE <<>>

\* StatusRenderer.layout_progress
layout_progress(item, width, height) ==
    LET left_button == IF item.state = "downloading" THEN "pause" ELSE "resume"
        right_x == width - StatusButton("cancel").size[1]
        progress_left == StatusButton(left_button).size[1] + 2
        progress_right == right_x - 2
        left(ly) == add_image(ly, StatusButton(left_button), 0, 0,
                              Some(left_button))
        right(ly) == add_image(ly, StatusButton("cancel"), right_x, 0,
                               Some("cancel"))
        bar(ly) == add_rect(ly, LayoutRect(progress_left, 0,
                                           progress_right - progress_left,
                                           height),
                            "ItemProgressBarDrawer.draw", None)
    IN  center_y(bar(right(left(<<>>))), 0, height)

\* StatusRenderer.layout_all; err is the exception it raises
StatusRenderer_layout_all(item, e, width, height) ==
    IF item.state \in {"downloading", "paused"}
    THEN IF item.download_info = None
         THEN [ly |-> <<>>, err |-> "AttributeError"]
         ELSE IF item.download_info[1].state # "pending"
         THEN [ly |-> layout_progress(item, width, height), err |-> ""]
         ELSE [ly |-> StatusRenderer_layout_text(item, e, width, height),
               err |-> ""]
    ELSE [ly |-> StatusRenderer_layout_text(item, e, width, height),
          err |-> ""]

\* layout.draw(context) of a StatusRenderer cell: what the progress bar's
\* drawer draws, and the exception that ends the drawing
RECURSIVE StatusRenderer_draw(_, _)
StatusRenderer_draw(ly, item) ==
    IF ly = <<>> THEN [bars |-> <<>>, err |-> ""]
    ELSE IF Head(ly).draw = "ItemProgressBarDrawer.draw"
    THEN LET bar == ProgressBarDrawer__layout(
                        ItemProgressBarDrawer(item), Head(ly).rect.x,
                        Head(ly).rect.y, Head(ly).rect.width,
                        Head(ly).rect.height)
             rest == StatusRenderer_draw(Tail(ly), item)
         IN  IF bar.err # "" THEN [bars |-> <<bar>>, err |-> bar.err]
             ELSE [bars |-> <<bar>> \o rest.bars, err |-> rest.err]
    ELSE StatusRenderer_draw(Tail(ly), item)

\* ListViewRenderer.render of a StatusRenderer
StatusRenderer_render(item, e, width, height) ==
    LET all == StatusRenderer_layout_all(item, e, width, height)
        drawn == StatusRenderer_draw(all.ly, item)
    IN  IF all.err # ""
        THEN [ly |-> <<>>, bars |-> <<>>, err |-> all.err]
        ELSE [ly |-> all.ly, bars |-> drawn.bars, err |-> drawn.err]

\* the host draws the row's status cell in one of the given sizes
StatusRender(SIZES) ==
    \E size \in SIZES :
        LET out == StatusRenderer_render(info[1], env[1], size[1], size[2])
        IN  /\ status' = Some([size |-> size, ly |-> out.ly,
                               bars |-> out.bars, err |-> out.err])
            /\ UNCHANGED <<storeVars, ret, calls, layout, info, env, ir,
                           tested, rendered>>

\* SpecProgress: rows being downloaded, with nothing, a part or everything
\* downloaded, of a known, zero or negative size, drawn as an item cell and
\* as a list-view status cell
ProgressItems ==
    {[PlainItem EXCEPT !.state = state, !.size = size,
                       !.download_info =
                           Some(DownloadInfo(state, downloaded_size,
                                             total_size, FALSE, 10))] :
        state \in {"downloading", "paused"},
        size \in {0 - 1, 0, 100},
        downloaded_size \in {0, 1, 10, 50, 99, 100},
        total_size \in {0 - 1, 100}}
    \cup {[PlainItem EXCEPT !.state = "downloading", !.size = 0,
                            !.download_info =
                                Some(DownloadInfo("pending", 0, 0 - 1, FALSE,
                                                  0))],
          [PlainItem EXCEPT !.size = 0]}
ProgressSizes == {<<60, 20>>, <<100, 21>>}
ProgressCells == {<<MIN_WIDTH + d, HEIGHT>> : d \in {0, 4, 9, 55}}
ProgressFlags == {[selected |-> FALSE, hotspot |-> None, hover |-> FALSE]}

InitProgress ==
    /\ StoreIdle
    /\ layout = <<>>
    /\ info \in {Some(i) : i \in ProgressItems}
    /\ env = Some(Env(None, FALSE, {}, 0, 1))
    /\ ir \in {Some(r) : r \in UsedItemRenderers}
    /\ tested = None /\ rendered = None /\ status = None

NextProgress ==
    \/ Render(ProgressCells, ProgressFlags)
    \/ StatusRender(ProgressSizes)

SpecProgress == InitProgress /\ [][NextProgress]_vars

\* the row has no size and is being downloaded
NoSize == info[1].size <= 0 /\ DownloadState(info[1])
ShowsProgress ==
    DownloadState(info[1]) /\ info[1].download_info[1].state # "pending"

Seam(bar) == {op \in Elems(bar.ops) : op.by = "_draw_progress_right"}
\* the rectangles of a bar filled with one of the colours
Filled(bar, colors) ==
    {op \in Elems(bar.ops) :
        op.by \in {"_draw_base", "_draw_border"} /\ op.color \in colors}

\* C16: the seam at the fill boundary is drawn with a height above zero
\* exactly when 0 < progress_width < width, and then it is 1 px wide and
\* ends at the boundary; at ratio 0 the progress-coloured rectangles have no
\* width and the seam has no height; at ratio 1 the rectangle that is not
\* progress has no width and no seam is drawn
C16_SeamBetweenExtremes ==
    status # None =>
        \A i \in DOMAIN status[1].bars :
            LET bar == status[1].bars[i]
                pb == bar.pb
                ratio == ItemProgressBarDrawer(info[1])
            IN  /\ bar.err = ""
                /\ (\E op \in Seam(bar) : op.rect.height > 0)
                       <=> (0 < pb.progress_width
                               /\ pb.progress_width < pb.width)
                /\ \A op \in Seam(bar) :
                       /\ op.rect.width = 1
                       /\ op.rect.x + 1 = pb.x + pb.progress_width
                       /\ op.rect.height <= pb.height \div 2
                /\ ratio[1] = 0 =>
                       /\ pb.progress_width = 0
                       /\ \A op \in Filled(bar, {"PROGRESS_BASE_TOP",
                                                 "PROGRESS_BASE_BOTTOM",
                                                 "PROGRESS_BORDER_TOP",
                                                 "PROGRESS_BORDER_BOTTOM"}) :
                              op.rect.width = 0
                       /\ Seam(bar) # {}
                       /\ \A op \in Seam(bar) : op.rect.height = 0
                /\ ratio[1] = ratio[2] =>
                       /\ pb.progress_width = pb.width
                       /\ \A op \in Filled(bar, {"BASE", "BORDER_GRADIENT"}) :
                              op.rect.width = 0
                       /\ Seam(bar) = {}

\* a bar whose fill ends inside the left cap: the seam is drawn, shorter
\* than half the bar
C16_Witness ==
    /\ status # None /\ status[1].bars # <<>>
    /\ status[1].bars[1].pb.progress_end = "left"
    /\ status[1].bars[1].pb.progress_width > 0
    /\ \E op \in Seam(status[1].bars[1]) :
           /\ op.rect.height > 0
           /\ op.rect.height < status[1].bars[1].pb.height \div 2

\* C17: hotspot_test and render raise nothing, whatever the fields of the
\* item are, an item without download info in state "downloading" or
\* "paused" included
C17_NeverRaises ==
    /\ tested # None => tested[1].err = ""
    /\ rendered # None => rendered[1].err = ""

\* C18: after a completed hotspot_test or render the extra-info drawer holds
\* no text boxes, and the extra-info texts a render draws are those of the
\* row's own item
C18_ExtraInfoReset ==
    Completed =>
        /\ ir[1].extra_info_textboxes = Some(<<>>)
        /\ (rendered # None /\ rendered[1].err = "")
               => rendered[1].extra_info = extra_info_setup(info[1])

\* a row with extra-info texts has been drawn and the drawer is empty again
C18_Witness ==
    /\ rendered # None /\ rendered[1].err = ""
    /\ Len(rendered[1].extra_info) = 2
    /\ \E n \in DOMAIN rendered[1].ly :
           rendered[1].ly[n].draw = "extra_info_drawer.draw"
    /\ ir[1].extra_info_textboxes = Some(<<>>)

\* SpecFresh: hit tests by a renderer that is new or has painted or
\* hit-tested another row before, with one of the flag combinations
StaleItems == {i \in ItemItems : ~DownloadState(i) \/ i.download_info # None}
StaleRenderers ==
    {NewItemRenderer(TRUE, FALSE)}
    \cup {ItemRenderer_render(NewItemRenderer(TRUE, FALSE), i,
                              Env(Some(1), FALSE, {}, 50, 1), MIN_WIDTH,
                              HEIGHT, f.selected, f.hotspot, f.hover).r :
              i \in StaleItems, f \in ItemFlags}
    \cup {ItemRenderer_hotspot_test(NewItemRenderer(TRUE, FALSE), i,
                                    Env(None, FALSE, {}, 0, 2), 30, 30,
                                    MIN_WIDTH + 55, HEIGHT, None).r :
              i \in StaleItems}

InitFresh ==
    /\ StoreIdle
    /\ layout = <<>>
    /\ info \in {Some(i) : i \in ItemItems}
    /\ env \in {Some(e) : e \in ItemEnvs}
    /\ ir \in {Some(r) : r \in StaleRenderers}
    /\ tested = None /\ rendered = None /\ status = None

NextFresh == HotspotTest(ItemSizes, ItemPoints, ItemIndexes)

SpecFresh == InitFresh /\ [][NextFresh]_vars

\* hotspot_test of the row by a renderer just constructed
FreshTest(p, index) ==
    ItemRenderer_hotspot_test(NewItemRenderer(TRUE, FALSE), info[1], env[1],
                              p[1], p[2], tested[1].size[1], tested[1].size[2],
                              index)

\* C19: whatever the renderer painted or hit-tested before, hotspot_test
\* builds the Layout a new renderer builds for the item, attributes,
\* playback state and size, raises what it raises and answers, at every
\* point, what it answers
C19_StatelessHotspotTest ==
    tested # None =>
        /\ tested[1].err = FreshTest(<<0, 0>>, None).err
        /\ tested[1].ly = FreshTest(<<0, 0>>, None).ly
        /\ \A p \in ItemPoints, index \in ItemIndexes :
               hotspot_result(ir[1], find_hotspot(tested[1].ly, p[1], p[2]),
                              index)
                   = FreshTest(p, index).result
        /\ \E p \in ItemPoints, index \in ItemIndexes :
               tested[1].result = FreshTest(p, index).result

\* a row that is not being downloaded was hit on a hotspot by a renderer
\* that still holds the throbber_mode of a download it handled before
C19_Witness ==
    /\ tested # None /\ tested[1].err = ""
    /\ tested[1].result # None
    /\ ~DownloadState(info[1])
    /\ ir[1].throbber_mode # None
    /\ ir[1] # FreshTest(<<0, 0>>, None).r

\* the width of the bar layout_progress_bar adds for the row's cell when
\* throbber_mode is off
PlainBarWidth ==
    LET r == [ir[1] EXCEPT !.throbber_mode = Some(FALSE)]
        g == setup_guides(r, rendered[1].size[1], rendered[1].size[2])
        ly == layout_progress_bar([ly |-> <<>>, r |-> r], g).ly
    IN  ly[Len(ly)].rect.width

\* C20: in throbber mode the progress bar added to the Layout is a multiple
\* of 10 px wide, not wider than it is without throbber mode and less than
\* 10 px narrower; without throbber mode its width is not rounded: it is
\* the width of the middle column less the 74 px of the buttons outside
\* the caps
C20_ThrobberBarWidth ==
    (rendered # None /\ rendered[1].err = "" /\ DownloadState(info[1])) =>
        /\ ProgressBars(rendered[1].ly) # {}
        /\ PlainBarWidth
               = setup_guides(ir[1], rendered[1].size[1],
                              rendered[1].size[2]).middle_rect.width - 74
        /\ \A n \in ProgressBars(rendered[1].ly) :
               LET width == rendered[1].ly[n].rect.width
               IN  IF ThrobberState(info[1])
                   THEN /\ width % 10 = 0
                        /\ width <= PlainBarWidth
                        /\ PlainBarWidth - width < 10
                   ELSE width = PlainBarWidth

\* a throbber bar that was made narrower to be a multiple of 10 px wide
C20_Witness ==
    /\ rendered # None /\ rendered[1].err = ""
    /\ DownloadState(info[1]) /\ ThrobberState(info[1])
    /\ \E n \in ProgressBars(rendered[1].ly) :
           /\ rendered[1].ly[n].rect.width % 10 = 0
           /\ rendered[1].ly[n].rect.width < PlainBarWidth

----------------------------------------------------------------------------
(* Claims about the item cell outside download mode *)

\* SpecRight: rows that are not being downloaded, local or not, from a feed
\* or a share, expiring or not, while the keep animation runs or not, in
\* the normal font size and in twice that
RightItems ==
    {[PlainItem EXCEPT !.downloaded = downloaded, !.is_external = external,
                       !.source_type = source_type,
                       !.expiration_date = expiration_date,
                       !.state = IF downloaded THEN "saved"
                                 ELSE "not-downloaded"] :
        downloaded \in Booleans, external \in Booleans,
        source_type \in {"feed", "sharing"},
        expiration_date \in {None, Some(<<"Expires", "soon">>)}}
RightEnvs ==
    {Env(None, FALSE, {}, alpha, scale) : alpha \in {0, 50}, scale \in {1, 2}}

InitRight ==
    /\ StoreIdle
    /\ layout = <<>>
    /\ info \in {Some(i) : i \in RightItems}
    /\ env \in {Some(e) : e \in RightEnvs}
    /\ ir \in {Some(r) : r \in UsedItemRenderers}
    /\ tested = None /\ rendered = None /\ status = None

NextRight ==
    \/ HotspotTest({<<MIN_WIDTH, HEIGHT>>}, {<<30, 30>>}, {None})
    \/ Render(ItemSizes, ItemFlags)

SpecRight == InitRight /\ [][NextRight]_vars

\* the elements of a Layout with the hotspot, and those drawing the image
WithHotspot(ly, hotspot) == {n \in DOMAIN ly : ly[n].hotspot = Some(hotspot)}
WithImage(ly, names) == {n \in DOMAIN ly : ly[n].draw \in names}

\* the right region of the Layout of the row is as C21 has it
RightRegion(ly) ==
    LET item == info[1]
    IN  /\ Cardinality(WithHotspot(ly, "#show-context-menu")) = 1
        /\ Cardinality(WithHotspot(ly, "delete"))
               = IF /\ item.downloaded \/ item.is_external
                    /\ item.source_type # "sharing"
                 THEN 1 ELSE 0
        /\ Cardinality(WithHotspot(ly, "keep"))
               = IF item.expiration_date # None THEN 1 ELSE 0
        /\ Cardinality(WithImage(ly, {"saved"}))
               = IF item.expiration_date = None /\ env[1].keep_alpha > 0
                 THEN 1 ELSE 0
        /\ Cardinality(WithImage(ly, {"draw_expire_background"}))
               = Cardinality(WithHotspot(ly, "keep"))
                     + Cardinality(WithImage(ly, {"saved"}))
        /\ WithHotspot(ly, "keep") = {} \/ WithImage(ly, {"saved"}) = {}

\* C21: outside download mode the menu button is always laid out, the
\* remove button exactly when the item is downloaded or external and not
\* from a share, the keep badge exactly when the item expires, the Saved
\* badge exactly when it does not and the keep animation's alpha is above
\* zero; the two badges are never laid out together
C21_RightRegion ==
    /\ tested # None => RightRegion(tested[1].ly)
    /\ rendered # None => RightRegion(rendered[1].ly)

\* a downloaded row from a feed that has just been kept: menu, remove and
\* the Saved badge, no keep badge
C21_Witness ==
    /\ rendered # None /\ rendered[1].err = ""
    /\ info[1].downloaded /\ info[1].expiration_date = None
    /\ env[1].keep_alpha > 0
    /\ WithImage(rendered[1].ly, {"saved"}) # {}
    /\ WithHotspot(rendered[1].ly, "delete") # {}
    /\ WithHotspot(rendered[1].ly, "keep") = {}

\* SpecLink: rows with no, one or two links in the description, with and
\* without a feed name, and a torrent folder, hit at every character
\* position from the preface to past the last link
LinkA == [start |-> 0, end |-> 5, url |-> "http://a"]
LinkB == [start |-> 8, end |-> 12, url |-> "http://b"]
LinkItems ==
    {[PlainItem EXCEPT !.description_links = links, !.feed_name = feed_name] :
        links \in {<<>>, <<LinkA>>, <<LinkA, LinkB>>},
        feed_name \in {<<>>, <<"Feed">>}}
    \cup {[PlainItem EXCEPT !.downloaded = TRUE, !.state = "saved",
                            !.children = TRUE, !.description_links = <<LinkB>>,
                            !.download_info =
                                Some(DownloadInfo("uploading", 100, 100, TRUE,
                                                  0))]}
LinkIndexes ==
    {None} \cup {Some(i) : i \in {0, 4, 5, 9, 10, 14, 15, 18, 21, 22, 25, 26}}
LinkPoints == {<<30, 30>>, <<240, 78>>, <<240, 110>>}
LinkRenderers ==
    {NewItemRenderer(display_channel, FALSE) : display_channel \in Booleans}
    \cup UsedItemRenderers

InitLink ==
    /\ StoreIdle
    /\ layout = <<>>
    /\ info \in {Some(i) : i \in LinkItems}
    /\ env = Some(Env(None, FALSE, {}, 0, 1))
    /\ ir \in {Some(r) : r \in LinkRenderers}
    /\ tested = None /\ rendered = None /\ status = None

NextLink == HotspotTest({<<MIN_WIDTH, HEIGHT>>}, LinkPoints, LinkIndexes)

SpecLink == InitLink /\ [][NextLink]_vars

\* the link spans of the row's description and the length of its preface,
\* as the row's item and the renderer's display_channel give them
LinkSpans ==
    IF /\ info[1].download_info # None
       /\ info[1].download_info[1].torrent
       /\ info[1].children
    THEN <<[start |-> 0, end |-> 16, url |-> "#show-torrent-contents"]>>
    ELSE info[1].description_links
PrefaceLen ==
    IF ir[1].display_channel /\ info[1].feed_name # <<>>
    THEN 8 * Len(info[1].feed_name) + 2 ELSE 0

\* the answer C22 gives to a hit on the description at a character index
DescriptionAnswer(index) ==
    LET spans == {n \in DOMAIN LinkSpans :
                     /\ index # None
                     /\ LinkSpans[n].start <= index[1] - PrefaceLen
                     /\ index[1] - PrefaceLen < LinkSpans[n].end}
    IN  IF spans = {} THEN None
        ELSE IF \E n \in spans : LinkSpans[n].url = "#show-torrent-contents"
        THEN Some("show_contents")
        ELSE Some("description-link:"
                      \o LinkSpans[CHOOSE n \in spans : TRUE].url)

TitleOf(ly) == ly[CHOOSE n \in DOMAIN ly : ly[n].draw = "title.draw"].rect
ExtraInfoOf(ly) ==
    ly[CHOOSE n \in DOMAIN ly : ly[n].draw = "extra_info_drawer.draw"].rect
DescriptionOf(ly) ==
    ly[CHOOSE n \in DOMAIN ly : ly[n].draw = "description.draw"].rect

\* the text block of the Layout built for a cell of the size is as C23 has it
TextBlock(ly, size) ==
    LET total_height == TitleOf(ly).height + ExtraInfoOf(ly).height
                            + DescriptionOf(ly).height + 16
        top == TitleOf(ly).y
        bottom == Bottom(DescriptionOf(ly))
        cap == setup_guides(ir[1], size[1], size[2]).middle_rect.y + 80
    IN  /\ bottom = top + total_height
        /\ bottom = Min(28 + total_height, cap)
        /\ bottom <= cap
        /\ top <= 28
        /\ (28 + total_height <= cap) => top = 28
        /\ (28 + total_height > cap) => bottom = cap
        /\ ir[1].text_top = Some(top)

\* C23: the bottom of the text block (its top plus the heights of title,
\* extra-info line and description and 16 px of spacing) is
\* min(28 + total height, top of the middle region + 80): the top is 28
\* when the block fits and is less otherwise, and the bottom is never below
\* the cap
C23_TextBlock ==
    /\ tested # None => TextBlock(tested[1].ly, tested[1].size)
    /\ rendered # None => TextBlock(rendered[1].ly, rendered[1].size)

\* a row in the large font: its text block was moved up to end at the cap
C23_Witness ==
    /\ rendered # None /\ rendered[1].err = ""
    /\ env[1].scale = 2
    /\ TitleOf(rendered[1].ly).y < 28
    /\ Bottom(DescriptionOf(rendered[1].ly))
           = setup_guides(ir[1], rendered[1].size[1],
                          rendered[1].size[2]).middle_rect.y + 80

---------------------------------------------------------------------------
(* Claims about the torrent details of a row being downloaded *)

\* SpecTorrent: rows being downloaded, by torrent or not, started or not,
\* paused or not, in cells of several heights and in fonts of one, two and
\* three times the normal line height
TorrentItems ==
    {[PlainItem EXCEPT !.state = state,
                       !.download_info =
                           Some(DownloadInfo(state, 40, 100, torrent, rate))] :
        state \in {"downloading", "paused"}, torrent \in Booleans,
        rate \in {0, 5}}
TorrentEnvs == {Env(None, FALSE, {}, 0, scale) : scale \in {1, 2, 3}}
TorrentSizes ==
    {<<MIN_WIDTH, height>> : height \in {HEIGHT, 135, 125, 109, 105, 60}}

InitTorrent ==
    /\ StoreIdle
    /\ layout = <<>>
    /\ info \in {Some(i) : i \in TorrentItems}
    /\ env \in {Some(e) : e \in TorrentEnvs}
    /\ ir = Some(NewItemRenderer(TRUE, FALSE))
    /\ tested = None /\ rendered = None /\ status = None

NextTorrent ==
    \/ HotspotTest(TorrentSizes, {<<30, 30>>}, {None})
    \/ Render(TorrentSizes, {[selected |-> FALSE, hotspot |-> None,
                              hover |-> FALSE]})

SpecTorrent == InitTorrent /\ [][NextTorrent]_vars

\* the row is one that layout_download_right_torrent lays the details of
TorrentDetailsShown ==
    /\ info[1].state = "downloading"
    /\ info[1].download_info[1].torrent
    /\ info[1].download_info[1].rate # 0

\* the height left under the third separator of the download info, down to
\* the bottom of the padded right region, in a cell of the height
RemainingHeight(ly, height) ==
    LET separators == {n \in DOMAIN ly :
                          ly[n].draw = "draw_download_info_separator"}
        last == CHOOSE n \in separators :
                    \A k \in separators : ly[k].rect.y <= ly[n].rect.y
    IN  (height - 19) - (ly[last].rect.y + 1)

\* the labels of the Layout, in the order they were added
LabelsOf(ly) ==
    LET F[n \in 0..Len(ly)] ==
            IF n = 0 THEN <<>>
            ELSE IF \E i \in 1..4 : ly[n].draw = TorrentLabels[i]
                 THEN Append(F[n - 1], ly[n].draw)
                 ELSE F[n - 1]
    IN  F[Len(ly)]

\* the number of detail lines that fit the remaining height
Capacity(ly, height) ==
    Min(4, Max(0, RemainingHeight(ly, height)
                      \div line_height("torrent_details", env[1])))

\* the detail rows of the Layout are the first Capacity ones
RowsFit(ly, height) ==
    LabelsOf(ly) = SubSeq(TorrentLabels, 1, Capacity(ly, height))

\* C24: with a nonzero download rate the torrent detail rows laid out are
\* the first min(4, floor(remaining height / line height)) of PEERS, SEEDS,
\* LEECH, SHARE, and none when nothing fits, a negative remaining height
\* included
C24_TorrentRows ==
    /\ (rendered # None /\ rendered[1].err = "" /\ TorrentDetailsShown)
           => RowsFit(rendered[1].ly, rendered[1].size[2])
    /\ (tested # None /\ tested[1].err = "" /\ TorrentDetailsShown)
           => RowsFit(tested[1].ly, tested[1].size[2])

\* C24 holds of the rows whose remaining height is not negative: there the
\* rows are the first ones that fit
C24_RowsFitWhenRoom ==
    (rendered # None /\ rendered[1].err = "" /\ TorrentDetailsShown
        /\ RemainingHeight(rendered[1].ly, rendered[1].size[2]) >= 0)
    => RowsFit(rendered[1].ly, rendered[1].size[2])

\* some, but not all, of the rows fit and were laid out
C24_Witness ==
    /\ rendered # None /\ rendered[1].err = "" /\ TorrentDetailsShown
    /\ RemainingHeight(rendered[1].ly, rendered[1].size[2]) >= 0
    /\ Len(LabelsOf(rendered[1].ly)) \in {2, 3}

---------------------------------------------------------------------------
(* StateCircleRenderer: the attributes the renderer keeps.  icon maps a    *)
(* state to the surface loaded for it; a state with no surface is absent.  *)

ICON_STATES == {"unplayed", "new", "playing", "downloading"}

\* StateCircleRenderer.__init__; loads counts the surfaces asked of the
\* image pool by the last call
NewStateCircleRenderer ==
    [icon |-> <<>>, setup_size |-> <<-1, -1>>, width |-> None,
     height |-> None, min_width |-> 7, loads |-> 0]

\* the icon sizes setup_icons asks for: int(height / 2.0) wide and
\* int(icon_width / (7.0 / 9.0) + 0.5) high
icon_dimensions(height) ==
    <<Trunc(height, 2), Trunc(18 * Trunc(height, 2) + 7, 14)>>

\* the surfaces imagepool.get_surface answers for the four states
LoadedIcons(dimensions) ==
    [state \in ICON_STATES |->
        [name |-> state, width |-> dimensions[1], height |-> dimensions[2]]]

\* setup_icons that loads the icons on the first call only
setup_icons_once(r, width, height) ==
    IF r.setup_size # <<-1, -1>> THEN [r EXCEPT !.loads = 0]
    ELSE [icon |-> LoadedIcons(icon_dimensions(height)),
          setup_size |-> <<width, height>>,
          width |-> Some(icon_dimensions(height)[1]),
          height |-> Some(icon_dimensions(height)[2]),
          min_width |-> icon_dimensions(height)[1], loads |-> 4]

\* StateCircleRenderer.setup_icons
setup_icons(r, width, height) ==
    IF <<width, height>> = r.setup_size THEN [r EXCEPT !.loads = 0]
    ELSE [icon |-> LoadedIcons(icon_dimensions(height)),
          setup_size |-> <<width, height>>,
          width |-> Some(icon_dimensions(height)[1]),
          height |-> Some(icon_dimensions(height)[2]),
          min_width |-> icon_dimensions(height)[1], loads |-> 4]

\* StateCircleRenderer.calc_icon: the state whose icon is shown, if any
calc_icon(item) ==
    IF item.state = "downloading" THEN Some("downloading")
    ELSE IF item.is_playing THEN Some("playing")
    ELSE IF item.state = "newly-downloaded" THEN Some("unplayed")
    ELSE IF item.downloaded /\ item.is_playable /\ ~item.video_watched
    THEN Some("new")
    ELSE IF /\ ~item.item_viewed /\ item.expiration_date = None
            /\ ~item.is_external /\ ~item.downloaded
    THEN Some("new")
    ELSE None

\* StateCircleRenderer.render: the renderer after it and what it drew
StateCircleRenderer_render(r, item, width, height) ==
    LET after == setup_icons(r, width, height)
        x == (width - after.width[1]) \div 2
        y == (height - after.height[1]) \div 2
        shown(state) == after.icon[state]
    IN  [r |-> after,
         drawn |-> IF calc_icon(item) = None THEN <<>>
                   ELSE <<Drawn(shown(calc_icon(item)[1]).name, x, y,
                                shown(calc_icon(item)[1]).width,
                                shown(calc_icon(item)[1]).height)>>]

\* the host draws the state circle of the row in one of the given sizes
StateCircleRender(SIZES) ==
    \E size \in SIZES :
        LET out == StateCircleRenderer_render(ir[1], info[1], size[1],
                                              size[2])
        IN  /\ ir' = Some(out.r)
            /\ rendered' = Some([size |-> size, before |-> ir[1],
                                  drawn |-> out.drawn])
            /\ UNCHANGED <<storeVars, ret, calls, layout, info, env, tested,
                           status>>

\* the host moves the renderer to another row
SetRow(ITEMS) ==
    \E item \in ITEMS :
        /\ info # Some(item)
        /\ info' = Some(item)
        /\ UNCHANGED <<storeVars, ret, calls, layout, env, ir, tested,
                       rendered, status>>

\* SpecCircle: one StateCircleRenderer drawing rows of every icon, and of
\* none, in cells of several sizes, two of one height and two of one width
CircleItems ==
    {[is_playing |-> playing] @@
     [PlainItem EXCEPT !.state = state, !.item_viewed = viewed] :
        playing \in Booleans, viewed \in Booleans,
        state \in {"downloading", "newly-downloaded", "not-downloaded"}}
CircleSizes == {<<20, 18>>, <<20, 19>>, <<30, 18>>, <<7, 9>>}

InitCircle ==
    /\ StoreIdle
    /\ layout = <<>>
    /\ info \in {Some(i) : i \in CircleItems}
    /\ env = None
    /\ ir = Some(NewStateCircleRenderer)
    /\ tested = None /\ rendered = None /\ status = None

NextCircle ==
    \/ StateCircleRender(CircleSizes)
    \/ SetRow(CircleItems)

SpecCircle == InitCircle /\ [][NextCircle]_vars

\* C25: after a render the cached icons are those of the size of that
\* render, icon width floor(height / 2) and setup_size its (width, height);
\* the icons were loaded in it exactly when its size differs from the size
\* of the render before, and a render at the same size left the cache as
\* it was
C25_IconCache ==
    rendered # None =>
        LET size == rendered[1].size
            before == rendered[1].before
            unchanged == before.setup_size = size
        IN  /\ ir[1].setup_size = size
            /\ ir[1].width = Some(size[2] \div 2)
            /\ \A state \in ICON_STATES :
                   /\ ir[1].icon[state].width = size[2] \div 2
                   /\ ir[1].icon[state].height = ir[1].height[1]
            /\ (ir[1].loads # 0) <=> ~unchanged
            /\ unchanged => [ir[1] EXCEPT !.loads = 0]
                                = [before EXCEPT !.loads = 0]

\* the renderer drew at one size, then at another, and the icons are those
\* of the second
C25_Witness ==
    /\ rendered # None
    /\ rendered[1].before.setup_size \notin {<<-1, -1>>, rendered[1].size}
    /\ rendered[1].before.setup_size[2] # rendered[1].size[2]
    /\ ir[1].loads = 4
    /\ rendered[1].drawn # <<>>

---------------------------------------------------------------------------
(* Claims about the displays a store call leaves alone *)

\* the displays the runs of SpecGetters address
GetterKeys == {<<dt, unicode(id)>> : dt \in GetterTypes, id \in StoreIds}

\* C26: a store call changes the enabled list-view columns of the display
\* it addresses only: for every other display, one of the same or of an
\* aliased type whose columns were never set included, the enabled columns
\* are as before the call, and the contents of the default column lists
\* stay the initial ones.
C26_OtherDisplaysKeepColumns ==
    [][ret'.op # ""
       => /\ \A k \in GetterKeys \ {CallDisplayKey(ret')} :
                 EnabledIn(displays', lists', k[1], k)
                     = EnabledIn(displays, lists, k[1], k)
          /\ lists' = InitialLists
      ]_vars

\* SpecWidths: the column calls on the list view of one display, with
\* columns that are available for its type
MaxWidthCalls == 3
WidthTypes == {"videos"}
WidthColumns == {"name", "rating"}

InitWidths == InitStoreVars /\ RenderersIdle /\ calls = MaxWidthCalls

NextWidths ==
    \/ ToggleColumn(WidthTypes, StoreIds, {LIST_VIEW}, WidthColumns)
    \/ SetColumnsEnabled(WidthTypes, StoreIds, {LIST_VIEW},
                         {<<"name">>, <<"state", "rating">>})
    \/ UpdateColumnWidths(WidthTypes, StoreIds, {LIST_VIEW},
                          {[name |-> 50], [rating |-> 80]})
    \/ GetColumnsEnabled(WidthTypes, StoreIds, {LIST_VIEW})
    \/ GetColumnWidths(WidthTypes, StoreIds, {LIST_VIEW})

SpecWidths == InitWidths /\ [][NextWidths]_vars

\* C27: after toggle_column, set_columns_enabled and update_column_widths
\* calls with columns available for the display type, get_column_widths
\* for the list view returns a width for every column get_columns_enabled
\* returns for the display.
C27_WidthForEveryEnabledColumn ==
    (ret.op = "get_column_widths" /\ ret.err = "")
    => /\ WidthColumns \subseteq Elems(AVAILABLE_COLUMNS[ret.dt])
       /\ Elems(EnabledNow(ret.dt, CallDisplayKey(ret)))
              \subseteq DOMAIN ret.val

\* the getters of the store
Getters ==
    {"get_selected_view", "get_filters", "get_columns_enabled",
     "get_column_widths", "get_sort_state", "get_scroll_position"}

\* the DisplayInfo and the ViewInfo the call c reads are in the maps ds, vs
EntitiesExist(c, ds, vs) ==
    CASE c.op \in {"get_selected_view", "get_filters", "get_columns_enabled",
                   "get_column_widths"} -> CallDisplayKey(c) \in DOMAIN ds
      [] c.op = "get_scroll_position" -> CallViewKey(c) \in DOMAIN vs
      [] c.op = "get_sort_state" ->
             /\ CallViewKey(c) \in DOMAIN vs
             /\ is_list_view(c.vt[1]) => CallDisplayKey(c) \in DOMAIN ds
      [] OTHER -> FALSE

\* C28: a getter called when the DisplayInfo and the ViewInfo it reads
\* exist sends no Save message and leaves every stored field of every
\* DisplayInfo and ViewInfo, and the default lists, as they were.
C28_GettersOnlyRead ==
    [][(ret'.op \in Getters /\ EntitiesExist(ret', displays, views))
       => /\ sent' = <<>>
          /\ displays' = displays
          /\ views' = views
          /\ lists' = lists
          /\ backend' = backend
      ]_vars

\* C28 witness: get_sort_state has read the list view of a display whose
\* ViewInfo and DisplayInfo an earlier call had created
C28_Witness ==
    /\ ret.op = "get_sort_state" /\ ret.err = ""
    /\ ret.vt = Some(LIST_VIEW)
    /\ calls = MaxStoreCalls - 2
    /\ sent = <<>>
    /\ CallViewKey(ret) \in DOMAIN views
    /\ CallDisplayKey(ret) \in DOMAIN displays

\* C29: when a store call fails with an error, the displays and views maps
\* are exactly as before the call and no Save message has been sent.
C29_FailedCallChangesNothing ==
    [][ret'.err # ""
       => /\ displays' = displays
          /\ views' = views
          /\ sent' = <<>>
      ]_vars

\* C29 holds of the calls that fail on the view type before any lookup:
\* the column calls on a view that is not a list view
C29_ColumnCallsFailClean ==
    [][(/\ ret'.err = "ValueError"
        /\ ret'.op \in {"get_columns_enabled", "set_columns_enabled",
                         "toggle_column", "get_column_widths",
                         "update_column_widths"})
       => /\ displays' = displays
          /\ views' = views
          /\ sent' = <<>>
      ]_vars

---------------------------------------------------------------------------
(* TabRenderer and ConnectTabRenderer.  A cellpack.HBox is the sequence of *)
(* the children packed into it; the renderer keeps one in its hbox         *)
(* attribute, which does not exist until pack_bubbles assigns it.          *)

MIN_ICON_WIDTH_TALL == 25
MIN_ICON_WIDTH == 16
HBoxSpacing == 4

\* a packed child: what it is, the width it asks for, whether it takes the
\* width left over, the size of what it holds and the hotspot that is
\* (cellpack.Hotspot), if any
Packed(kind, what, width, expand, size, hotspot) ==
    [kind |-> kind, what |-> what, width |-> width, expand |-> expand,
     size |-> size, hotspot |-> hotspot]

\* cellpack.Alignment(child, xalign=0.0, xscale=0.0, yalign=0.5,
\* yscale=0.0, min_width=...)
Alignment(what, size, min_width, hotspot) ==
    Packed("alignment", what, Max(size[1], min_width), FALSE, size, hotspot)

\* HBox.find_hotspot(x, y, width, height): the children are laid out
\* left to right in the width, the expanding one taking what is left, and
\* the hotspot under the point, if any, is answered
HBox_find_hotspot(hbox, x, y, width, height) ==
    LET asked[n \in 0..Len(hbox)] ==
            IF n = 0 THEN 0 ELSE asked[n - 1] + hbox[n].width
        left == Max(0, width - asked[Len(hbox)]
                           - HBoxSpacing * (Len(hbox) - 1))
        child_width(n) == hbox[n].width + (IF hbox[n].expand THEN left ELSE 0)
        child_x[n \in 1..Len(hbox)] ==
            IF n = 1 THEN 0
            ELSE child_x[n - 1] + child_width(n - 1) + HBoxSpacing
        top(n) == (height - hbox[n].size[2]) \div 2
        hit == {n \in 1..Len(hbox) :
                   /\ hbox[n].hotspot # None
                   /\ is_point_inside(
                          LayoutRect(child_x[n], top(n), hbox[n].size[1],
                                     hbox[n].size[2]), x, y)}
    IN  IF hit = {} THEN None
        ELSE hbox[CHOOSE n \in hit : \A k \in hit : k <= n].hotspot

\* ConnectTabRenderer.__init__: there is none, and no class attribute hbox
NewConnectTabRenderer == [has_hbox |-> FALSE, hbox |-> None]

\* TabRenderer.pack_bubbles
TabRenderer_pack_bubbles(hbox, data) ==
    LET updating(h) ==
            Append(h, Alignment("icon-updating", <<16, 16>>, 20, None))
        bubble(h, count, what) ==
            IF count > 0
            THEN Append(h, Packed("background", what, 10, FALSE, <<10, 12>>,
                                  None))
            ELSE h
    IN  IF data.updating_frame > -1 THEN updating(hbox)
        ELSE bubble(bubble(hbox, data.unwatched, "unwatched"),
                    data.available, "available")

\* ConnectTabRenderer.pack_bubbles: the HBox and the renderer after it
ConnectTabRenderer_pack_bubbles(r, hbox, data) ==
    IF data.fake THEN [r |-> r, hbox |-> hbox, kept |-> FALSE]
    ELSE IF data.updating_frame > -1
    THEN [r |-> [has_hbox |-> TRUE, hbox |-> None],
          hbox |-> TabRenderer_pack_bubbles(hbox, data), kept |-> FALSE]
    ELSE IF data.mount # None
    THEN [r |-> [has_hbox |-> TRUE, hbox |-> None],
          hbox |-> Append(hbox, Alignment("icon-eject", <<14, 14>>, 20,
                                           Some("eject-device"))),
          kept |-> TRUE]
    ELSE [r |-> [has_hbox |-> TRUE, hbox |-> None], hbox |-> hbox,
          kept |-> FALSE]

\* TabRenderer.render of a ConnectTabRenderer: the renderer after it.  The
\* HBox kept in self.hbox is the object render goes on packing into, so it
\* has the trailing space as well
ConnectTabRenderer_render(r, data, e, selected) ==
    LET min_icon_width == IF ~e.use_custom_tablist_font \/ data.tall
                          THEN MIN_ICON_WIDTH_TALL ELSE MIN_ICON_WIDTH
        icon == IF selected THEN "active_icon" ELSE "icon"
        start == <<Alignment(icon, <<16, 16>>, min_icon_width, None),
                   Packed("text", data.name, 0, TRUE, <<0, 12>>, None)>>
        packed == ConnectTabRenderer_pack_bubbles(r, start, data)
        hbox == Append(packed.hbox,
                       Packed("space", "", 2, FALSE, <<2, 0>>, None))
    IN  IF packed.kept THEN [has_hbox |-> TRUE, hbox |-> Some(hbox)]
        ELSE packed.r

\* ConnectTabRenderer.hotspot_test
ConnectTabRenderer_hotspot_test(r, x, y, width, height) ==
    IF ~r.has_hbox THEN [err |-> "AttributeError", result |-> None]
    ELSE IF r.hbox = None THEN [err |-> "", result |-> None]
    ELSE [err |-> "",
          result |-> HBox_find_hotspot(r.hbox[1], x, y, width, height)]

\* the host draws the row the renderer is at
TabRender(FLAGS) ==
    \E selected \in FLAGS :
        /\ ir' = Some(ConnectTabRenderer_render(ir[1], info[1], env[1],
                                                selected))
        /\ rendered' = Some([row |-> info[1], selected |-> selected])
        /\ UNCHANGED <<storeVars, ret, calls, layout, info, env, tested,
                       status>>

\* the row whose title is packed in the HBox the renderer keeps, if it
\* keeps one
PackedFor(r) == IF r.hbox = None THEN None ELSE Some(r.hbox[1][2].what)

\* the host hit-tests the row the renderer is at
TabHotspotTest(SIZES, POINTS) ==
    \E size \in SIZES, p \in POINTS :
        LET out == ConnectTabRenderer_hotspot_test(ir[1], p[1], p[2],
                                                   size[1], size[2])
        IN  /\ tested' = Some([row |-> info[1], size |-> size, x |-> p[1],
                                packed_for |-> PackedFor(ir[1]),
                                after |-> rendered,
                                err |-> out.err, result |-> out.result])
            /\ UNCHANGED <<storeVars, ret, calls, layout, info, env, ir,
                           rendered, status>>

\* SpecTab: one ConnectTabRenderer moved over the rows of the connect
\* tab, devices with and without a mount, fake rows, rows being updated
TabRows ==
    {[name |-> row[1], fake |-> row[2], mount |-> row[3], tall |-> FALSE,
      updating_frame |-> row[4], unwatched |-> 0, available |-> 2] :
        row \in {<<"Phone", FALSE, Some("/media/phone"), -1>>,
                 <<"Camera", FALSE, None, -1>>,
                 <<"Share", TRUE, None, -1>>,
                 <<"Tablet", FALSE, Some("/media/tablet"), 3>>}}
TabSizes == {<<120, 28>>, <<160, 31>>}
TabPoints == {<<100, 14>>, <<140, 15>>}

InitTab ==
    /\ StoreIdle
    /\ layout = <<>>
    /\ info \in {Some(row) : row \in TabRows}
    /\ env \in {Some([use_custom_tablist_font |-> b]) : b \in Booleans}
    /\ ir = Some(NewConnectTabRenderer)
    /\ tested = None /\ rendered = None /\ status = None

NextTab ==
    \/ SetRow(TabRows)
    \/ TabRender(Booleans)
    \/ TabHotspotTest(TabSizes, TabPoints)

SpecTab == InitTab /\ [][NextTab]_vars


\* C30: hotspot_test never fails, before any render included; it answers
\* 'eject-device' for a row only if the row has a mount, is not fake and
\* is not being updated, and then from the button packed for that row.
C30_EjectOnlyForOwnRow ==
    tested # None =>
        /\ tested[1].err = ""
        /\ tested[1].result = Some("eject-device")
           => /\ tested[1].row.mount # None
              /\ ~tested[1].row.fake
              /\ tested[1].row.updating_frame = -1
              /\ tested[1].packed_for = Some(tested[1].row.name)
================================================================================
